---- MODULE Spec2Model ----
(***************************************************************************)
(* EmbeddingServer: the TCP connection server (src/server/server.rs), the  *)
(* OVNT envelope (src/protocol/mod.rs) and the model registry              *)
(* (src/models/registry.rs, src/models/model.rs, src/models/manager.rs).   *)
(*                                                                         *)
(* Spec          the accept loop and the per-connection handlers, over a   *)
(*               registry as EmbeddingServer::new leaves it                *)
(* SpecRegistry  concurrent load_model / unload_model / shutdown_all and   *)
(*               lookups on one ModelRegistry                              *)
(* SpecUnload    the same registry, started loaded, with no load issued    *)
(***************************************************************************)
EXTENDS Integers, Sequences, FiniteSets, TLC

\* ------------------------------------------------------------------ bounds

\* network.max_connections of the configuration under check
MaxConnections == 2

\* frames read from one connection
MaxFrames == 2

\* the tasks that call load_model, unload_model and shutdown_all
Procs == {"p1", "p2"}

\* the tasks that look names up
Observers == {"o1"}

\* one more client than there are permits
Conns == 1 .. (MaxConnections + 1)

\* 128-bit ids, cut down to two values
Uuids == {"u1", "u2"}

\* model names: "A" is the configured, enabled default model, "B" is not loaded
Names == {"A", "B"}

DefaultModel == "A"

\* Option<T>: None is the empty sequence, Some(x) the one-element sequence
None == << >>

Some(x) == << x >>

\* ------------------------------------------------------------ OVNT envelope

MAGIC_BYTES == << 79, 86, 78, 84 >>

VERSION == 1

\* the payloads a client may put in a frame: MessagePack of an EmbedRequest
\* {text, model}, or bytes that are no EmbedRequest
Payloads ==
    { [wf |-> FALSE, text |-> "", model |-> None] }
    \cup { [wf |-> TRUE, text |-> "t", model |-> m] :
             m \in {None} \cup { Some(n) : n \in Names } }

\* what the next read of a connection's byte stream meets: the end of the
\* stream, a socket error, or the bytes of a frame
WireInputs ==
    { [io |-> e, magic |-> MAGIC_BYTES, version |-> VERSION,
       sender_id |-> "u1", message_id |-> "u1",
       payload |-> [wf |-> FALSE, text |-> "", model |-> None]] :
         e \in {"eof", "reset"} }
    \cup { [io |-> "ok", magic |-> << 0, 0, 0, 0 >>, version |-> VERSION,
            sender_id |-> "u1", message_id |-> "u1",
            payload |-> [wf |-> FALSE, text |-> "", model |-> None]],
           [io |-> "ok", magic |-> MAGIC_BYTES, version |-> 2,
            sender_id |-> "u1", message_id |-> "u1",
            payload |-> [wf |-> FALSE, text |-> "", model |-> None]] }
    \cup { [io |-> "ok", magic |-> MAGIC_BYTES, version |-> VERSION,
            sender_id |-> s, message_id |-> m, payload |-> p] :
             s \in Uuids, m \in Uuids, p \in Payloads }

\* ProtocolMessage::read_from_stream: the io error of the stream, InvalidData
\* for a wrong magic, then InvalidData for a wrong version, else the message;
\* kind is the io::ErrorKind of the error
read_from_stream(w) ==
    IF w.io = "eof"
      THEN [ok |-> FALSE, kind |-> "UnexpectedEof", what |-> "", msg |-> None]
    ELSE IF w.io # "ok"
      THEN [ok |-> FALSE, kind |-> "ConnectionReset", what |-> "", msg |-> None]
    ELSE IF w.magic # MAGIC_BYTES
      THEN [ok |-> FALSE, kind |-> "InvalidData", what |-> "Invalid magic bytes",
            msg |-> None]
    ELSE IF w.version # VERSION
      THEN [ok |-> FALSE, kind |-> "InvalidData", what |-> "Unsupported version",
            msg |-> None]
    ELSE [ok |-> TRUE, kind |-> "", what |-> "",
          msg |-> Some([sender_id |-> w.sender_id, target_id |-> None,
                        message_id |-> w.message_id, payload |-> w.payload])]

\* deserialize_request: rmp_serde::from_slice into EmbedRequest
deserialize_request(p) ==
    IF p.wf THEN [ok |-> TRUE, text |-> p.text, model |-> p.model]
    ELSE [ok |-> FALSE, text |-> "", model |-> None]

\* ProtocolMessage::new: the given ids and payload, and a message id drawn
\* by Uuid::new_v4 (the caller supplies the draw)
ProtocolMessage_new(sender, target, payload, fresh) ==
    [sender_id |-> sender, target_id |-> target, message_id |-> fresh,
     payload |-> payload]

\* ------------------------------------------------------------------- state

VARIABLES
    server_id,      \* EmbeddingServer.server_id
    permits,        \* free permits of EmbeddingServer.connection_limiter
    accPc,          \* the accept loop: "accept" | "sleep"
    sock,           \* per client: "idle" | "backlog" | "open" | "dropped" | "closed"
    hpc,            \* per client, its handler task: "none" | "read" | "embed" | "write"
    request_msg,    \* handle_connection's request_msg, while a request is in processing
    response_msg,   \* handle_connection's response_msg, while it is being written
    nRead,          \* per open connection: the frames read from it so far
    answered,       \* per open connection: for each message written to it, in
                    \* order, the position in the stream of the frame it answers
                    \* and the kind of its payload
    rx,             \* per client: the io::ErrorKind of the read that failed on it
    hend,           \* per client: what handle_connection returned, "Ok" | "Err"
    models,         \* ModelRegistry.models: name -> handle
    model_infos,    \* ModelRegistry.model_infos: name -> ModelInfo
    modelsW,        \* the task holding the write lock of models across an await,
                    \* or "free"
    rpc,            \* per registry caller: where it is in its call
    rop,            \* per registry caller: its current or last call
    rname,          \* per registry caller: the name its call is about
    rmodel,         \* per registry caller: load_model's local model
    rres,           \* per registry caller: what its last call returned
    seen,           \* per observer: its two lookups of one name and their results
    wpc,            \* per embedding task: "idle" | "embed" | "run"
    wreq,           \* per embedding task: the request of its current or last call
    wmodel,         \* per embedding task: the handle get_model gave it, while it
                    \* holds it
    wres,           \* per embedding task: what its last call returned
    engineW,        \* per model instance: the task holding the write lock of its
                    \* engine, or "free"
    wguard,         \* per embedding task: the registry lock guards it holds
                    \* across an await
    config,         \* EmbeddingModelsManager.config
    mpc,            \* the manager's exclusive (&mut self) call: "idle" |
                    \* "shutdown_all" | "load_from_config"
    mcall,          \* that call: "initialize" | "reload_config"
    mnew,           \* reload_config's new_config, kept after the call
    todo,           \* load_from_config: the models its loop has yet to visit
    mnext,          \* load_from_config: the model_config of the current iteration
    mres,           \* what the manager's last exclusive call returned
    mfailed,        \* the names whose load_model failed in that call
    mloaded,        \* the names whose load_model returned Ok in that call
    cpc,            \* the codec round: "new" | "written" | "read"
    cmsg,           \* the ProtocolMessage given to write_to_stream
    ctrail,         \* the bytes that follow it on the stream
    cwire,          \* the stream
    cout,           \* what read_from_stream returned and what it left unread
    epc,            \* the embedding call: "idle" | "loop" | "done"
    ecall,          \* the entry point called: "embed_texts" | "embed_text" |
                    \* "embed_batch"
    etexts,         \* the texts given to embed_texts
    edim,           \* ModelInfo.dimension of the model
    ehidden,        \* the hidden size of the runtime session's output
    embeddings,     \* embed_texts: its local embeddings
    etok,           \* the texts given to the tokenizer so far, in order
    eruns,          \* the texts given to the runtime session so far, in order
    eres,           \* what embed_texts returned
    eout,           \* what the entry point returned
    bpc,            \* the building of a manager: "idle" | "built"
    bcall,          \* the constructor called: "from_config" | "from_config_file"
    bcfg,           \* the configuration given to it, or read from its file
    bres,           \* what from_config returned
    xpc,            \* the POST /embed handler: "idle" | "received" |
                    \* "embedding" | "responded"
    xreq,           \* the body of the request
    xresp,          \* the response
    xcalls,         \* the calls made on the manager for this request
    lpc,            \* per registry task: "idle" | "initialize" | "await_models" |
                    \* "has_models" | "await_infos" | "has_infos"
    lop,            \* per registry task: the call it is in
    lname,          \* per registry task: the name that call is about
    mlock,          \* the RwLock of ModelRegistry.models: its writer and readers
    ilock,          \* the RwLock of ModelRegistry.model_infos: the same
    spc,            \* a call for embeddings: "idle" | "engine" | "done"
    scall,          \* that call: the method, and the model name given to it
    smodel,         \* the handle the call resolved, or on which it was made
    sout            \* what the call returned to its caller

serverVars ==
    << server_id, permits, accPc, sock, hpc, request_msg, response_msg, nRead,
       answered, rx, hend >>

registryVars ==
    << models, model_infos, modelsW, rpc, rop, rname, rmodel, rres, seen >>

inferVars == << wpc, wreq, wmodel, wres, engineW, wguard >>

reloadVars ==
    << config, mpc, mcall, mnew, todo, mnext, mres, mfailed, mloaded >>

codecVars == << cpc, cmsg, ctrail, cwire, cout >>

engineVars ==
    << epc, ecall, etexts, edim, ehidden, embeddings, etok, eruns, eres, eout >>

buildVars == << bpc, bcall, bcfg, bres >>

httpVars == << xpc, xreq, xresp, xcalls >>

lockVars == << lpc, lop, lname, mlock, ilock >>

surfaceVars == << spc, scall, smodel, sout >>

laterVars == << engineVars, buildVars, httpVars, lockVars, surfaceVars >>

otherVars == << inferVars, reloadVars, codecVars, laterVars >>

vars == << serverVars, registryVars, otherVars >>

\* ------------------------------------------------------------ the registry

\* ModelInfo as OnnxEmbeddingModel::new derives it from the ModelConfig
ModelInfoOf(name) == [name |-> name]

\* a model handle: the boxed OnnxEmbeddingModel, engine is engine.is_some()
Handle(name, engine) == [info |-> ModelInfoOf(name), engine |-> engine]

Insert(map, name, v) ==
    [n \in DOMAIN map \cup {name} |-> IF n = name THEN v ELSE map[n]]

Remove(map, name) == [n \in DOMAIN map \ {name} |-> map[n]]

EmptyMap == [n \in {} |-> None]

\* no registry call is running and none has run
NoLookups == [name |-> "", first |-> "", r1 |-> "", second |-> "", r2 |-> ""]

RegistryIdle ==
    /\ modelsW = "free"
    /\ rpc = [p \in Procs \cup Observers |-> "idle"]
    /\ rop = [p \in Procs |-> ""]
    /\ rname = [p \in Procs |-> ""]
    /\ rmodel = [p \in Procs |-> None]
    /\ rres = [p \in Procs |-> ""]
    /\ seen = [o \in Observers |-> NoLookups]

\* the tasks that call embed_text / embed_text_with_model on the shared manager
Workers == {"w1", "w2"}

\* what such a task asks for: embed_text(text) has no model name,
\* embed_text_with_model(text, name) has one
Requests ==
    { [text |-> "t", model |-> m] : m \in {None} \cup { Some(n) : n \in Names } }

NoRequest == [text |-> "", model |-> None]

\* EmbeddingResult<Embedding>: Ok, or the error and the model name it carries;
\* stale records that the name was in neither map of the registry when the
\* call returned
NoResult == [ok |-> FALSE, error |-> "", model |-> "", stale |-> FALSE]

InferIdle ==
    /\ wpc = [w \in Workers |-> "idle"]
    /\ wreq = [w \in Workers |-> NoRequest]
    /\ wmodel = [w \in Workers |-> None]
    /\ wres = [w \in Workers |-> NoResult]
    /\ engineW = [n \in Names |-> "free"]
    /\ wguard = [w \in Workers |-> {}]

\* the orders in which a HashMap with these keys may yield its entries
KeyOrders(keys) ==
    { q \in [1 .. Cardinality(keys) -> keys] : { q[i] : i \in DOMAIN q } = keys }

\* EmbeddingModelsConfig: global.default_model, the keys of the models table,
\* the keys of the entries that are enabled, the keys the model groups list,
\* the name field of each entry, and the order in which the table yields its
\* entries
AllConfigs ==
    { c \in [default : Names, models : SUBSET Names, enabled : SUBSET Names,
              groups : SUBSET Names, name : [Names -> Names],
              order : UNION { KeyOrders(keys) : keys \in SUBSET Names }] :
        /\ c.enabled \subseteq c.models
        /\ c.order \in KeyOrders(c.models)
        /\ \A k \in Names \ c.models : c.name[k] = k }

\* the configurations in which every entry's name is its key, each with one
\* order of its table
Configs ==
    { c \in AllConfigs :
        /\ \A k \in Names : c.name[k] = k
        /\ c.order = CHOOSE q \in KeyOrders(c.models) : TRUE }

\* EmbeddingModelsConfig::get_default_model: the key of the first entry the
\* table yields whose name is global.default_model
get_default_model(c) ==
    LET hits == { i \in DOMAIN c.order : c.name[c.order[i]] = c.default }
    IN  IF hits = {} THEN None
        ELSE Some(c.order[CHOOSE i \in hits : \A j \in hits : i <= j])

\* mutant of validate: a default model that is not enabled is accepted
validate_any_default(c) ==
    IF ~ \E k \in c.models : c.name[k] = c.default
      THEN "Default model not found in models"
    ELSE IF ~ (c.groups \subseteq c.models) THEN "Model in group not found in models"
    ELSE "Ok"

\* EmbeddingModelsConfig::validate
validate(c) ==
    IF ~ \E k \in c.models : c.name[k] = c.default
      THEN "Default model not found in models"
    ELSE IF get_default_model(c) # None /\ get_default_model(c)[1] \notin c.enabled
      THEN "Default model is not enabled"
    ELSE IF ~ (c.groups \subseteq c.models) THEN "Model in group not found in models"
    ELSE "Ok"

\* the configuration the server is started with: the default model enabled,
\* the other model configured and disabled
StartupConfig ==
    [default |-> DefaultModel, models |-> Names, enabled |-> {DefaultModel},
     groups |-> {}, name |-> [k \in Names |-> k],
     order |-> CHOOSE q \in KeyOrders(Names) : TRUE]

ReloadIdle ==
    /\ config = StartupConfig
    /\ mpc = "idle"
    /\ mcall = ""
    /\ mnew = None
    /\ todo = {}
    /\ mnext = None
    /\ mres = ""
    /\ mfailed = {}
    /\ mloaded = {}

CodecIdle ==
    /\ cpc = "idle"
    /\ cmsg = None
    /\ ctrail = << >>
    /\ cwire = << >>
    /\ cout = None

EngineIdle ==
    /\ epc = "idle"
    /\ ecall = ""
    /\ etexts = << >>
    /\ edim = 0
    /\ ehidden = 0
    /\ embeddings = << >>
    /\ etok = << >>
    /\ eruns = << >>
    /\ eres = None
    /\ eout = None

BuildIdle ==
    /\ bpc = "idle"
    /\ bcall = ""
    /\ bcfg = None
    /\ bres = None

HttpIdle ==
    /\ xpc = "idle"
    /\ xreq = None
    /\ xresp = None
    /\ xcalls = << >>

\* the tasks that call the registry
Tasks == Procs \cup Observers

\* a tokio RwLock nobody holds
Unlocked == [writer |-> "", readers |-> {}]

\* ModelRegistry::new: both locks free, no call running
LockIdle ==
    /\ lpc = [t \in Tasks |-> "idle"]
    /\ lop = [t \in Tasks |-> ""]
    /\ lname = [t \in Tasks |-> ""]
    /\ mlock = Unlocked
    /\ ilock = Unlocked

\* no call for embeddings yet
SurfaceIdle ==
    /\ spc = "idle"
    /\ scall = None
    /\ smodel = None
    /\ sout = None

LaterIdle == EngineIdle /\ BuildIdle /\ HttpIdle /\ LockIdle /\ SurfaceIdle

\* ModelRegistry::get_model
get_model(name) == IF name \in DOMAIN models THEN Some(models[name]) ELSE None

\* EmbeddingModelsManager::embed_text / embed_text_with_model followed by
\* OnnxEmbeddingModel::embed_text; infer is the outcome of the engine's
\* embed_texts on this text ("ok" or an error), used only if the engine runs
manager_embed(req, infer) ==
    LET name == IF req.model = None THEN DefaultModel ELSE req.model[1]
        model == get_model(name)
    IN  IF model = None
          THEN [ok |-> FALSE, error |-> "ModelNotFound", model |-> name]
        ELSE IF ~ model[1].engine
          THEN [ok |-> FALSE, error |-> "ModelNotFound", model |-> name]
        ELSE IF infer # "ok"
          THEN [ok |-> FALSE, error |-> "InferenceError", model |-> name]
        ELSE [ok |-> TRUE, error |-> "", model |-> name]

\* ------------------------------------------------------------- the server

\* mutant of try_acquire_owned: a permit is handed out even when none is free
try_acquire_always(p) == [ok |-> TRUE, permits |-> p - 1]

\* Semaphore::try_acquire_owned on p free permits
try_acquire_owned(p) ==
    IF p > 0 THEN [ok |-> TRUE, permits |-> p - 1]
    ELSE [ok |-> FALSE, permits |-> p]

\* the open connections other than c that have carried a request
Talkers(c) == { d \in Conns \ {c} : nRead[d] > 0 }

\* the handlers share nothing but the permits and the registry, which no
\* handler changes: the clients are let to send requests one connection at a
\* time, the other connections staying silent until that one is closed
OneTalker(c) == Talkers(c) = {}

\* a client connects: the socket waits in the listener's backlog
ClientConnect(c) ==
    /\ sock[c] = "idle"
    /\ sock' = [sock EXCEPT ![c] = "backlog"]
    /\ UNCHANGED << server_id, permits, accPc, hpc, request_msg, response_msg,
                    nRead, answered, rx, hend >>
    /\ UNCHANGED registryVars
    /\ UNCHANGED otherVars

\* start: accept returned a socket and a permit was free; the handler is
\* spawned with the permit
Admit(c) ==
    /\ accPc = "accept"
    /\ sock[c] = "backlog"
    /\ try_acquire_owned(permits).ok
    /\ permits' = try_acquire_owned(permits).permits
    /\ sock' = [sock EXCEPT ![c] = "open"]
    /\ hpc' = [hpc EXCEPT ![c] = "read"]
    /\ UNCHANGED << server_id, accPc, request_msg, response_msg,
                    nRead, answered, rx, hend >>
    /\ UNCHANGED registryVars
    /\ UNCHANGED otherVars

\* mutant of Reject: the loop keeps the socket and waits for a permit
RejectQueue(c) ==
    /\ accPc = "accept"
    /\ sock[c] = "backlog"
    /\ permits = 0
    /\ sock' = [sock EXCEPT ![c] = "held"]
    /\ accPc' = "acquire"
    /\ UNCHANGED << server_id, permits, hpc, request_msg, response_msg,
                    nRead, answered, rx, hend >>
    /\ UNCHANGED registryVars
    /\ UNCHANGED otherVars

\* start: accept returned a socket and no permit was free; the socket is
\* dropped and the loop continues
Reject(c) ==
    /\ accPc = "accept"
    /\ sock[c] = "backlog"
    /\ ~ try_acquire_owned(permits).ok
    /\ permits' = try_acquire_owned(permits).permits
    /\ sock' = [sock EXCEPT ![c] = "dropped"]
    /\ UNCHANGED << server_id, accPc, hpc, request_msg, response_msg,
                    nRead, answered, rx, hend >>
    /\ UNCHANGED registryVars
    /\ UNCHANGED otherVars

\* mutant of AcceptErr: the error of accept is returned from start and the
\* loop ends
AcceptErrStops ==
    /\ accPc = "accept"
    /\ accPc' = "stopped"
    /\ UNCHANGED << server_id, permits, sock, hpc, request_msg, response_msg,
                    nRead, answered, rx, hend >>
    /\ UNCHANGED registryVars
    /\ UNCHANGED otherVars

\* start: accept returned an error; the loop sleeps 100 ms
AcceptErr ==
    /\ accPc = "accept"
    /\ accPc' = "sleep"
    /\ UNCHANGED << server_id, permits, sock, hpc, request_msg, response_msg,
                    nRead, answered, rx, hend >>
    /\ UNCHANGED registryVars
    /\ UNCHANGED otherVars

SleepDone ==
    /\ accPc = "sleep"
    /\ accPc' = "accept"
    /\ UNCHANGED << server_id, permits, sock, hpc, request_msg, response_msg,
                    nRead, answered, rx, hend >>
    /\ UNCHANGED registryVars
    /\ UNCHANGED otherVars

\* mutant of HandlerEnd: the permit is given back only when handle_connection
\* returned Ok
HandlerEndLeak(c, res) ==
    /\ sock' = [sock EXCEPT ![c] = "closed"]
    /\ hpc' = [hpc EXCEPT ![c] = "none"]
    /\ permits' = IF res = "Ok" THEN permits + 1 ELSE permits
    /\ hend' = [hend EXCEPT ![c] = res]
    /\ request_msg' = [request_msg EXCEPT ![c] = None]
    /\ response_msg' = [response_msg EXCEPT ![c] = None]
    /\ nRead' = [nRead EXCEPT ![c] = 0]
    /\ answered' = [answered EXCEPT ![c] = << >>]
    /\ UNCHANGED << server_id, accPc >>
    /\ UNCHANGED registryVars
    /\ UNCHANGED otherVars

\* handle_connection returns res; the spawned task drops the stream and then
\* the permit
HandlerEnd(c, res) ==
    /\ sock' = [sock EXCEPT ![c] = "closed"]
    /\ hpc' = [hpc EXCEPT ![c] = "none"]
    /\ permits' = permits + 1
    /\ hend' = [hend EXCEPT ![c] = res]
    /\ request_msg' = [request_msg EXCEPT ![c] = None]
    /\ response_msg' = [response_msg EXCEPT ![c] = None]
    /\ nRead' = [nRead EXCEPT ![c] = 0]
    /\ answered' = [answered EXCEPT ![c] = << >>]
    /\ UNCHANGED << server_id, accPc >>
    /\ UNCHANGED registryVars
    /\ UNCHANGED otherVars

\* mutant of ReadFailed: after a frame that does not decode the loop goes on
\* reading
ReadFailedContinue(c, kind) ==
    IF kind = "InvalidData"
      THEN /\ UNCHANGED << server_id, permits, accPc, sock, hpc, request_msg,
                          response_msg, nRead, answered, hend >>
           /\ UNCHANGED registryVars
           /\ UNCHANGED otherVars
      ELSE /\ sock' = [sock EXCEPT ![c] = "closed"]
           /\ hpc' = [hpc EXCEPT ![c] = "none"]
           /\ permits' = permits + 1
           /\ hend' = [hend EXCEPT ![c] = "Ok"]
           /\ nRead' = [nRead EXCEPT ![c] = 0]
           /\ answered' = [answered EXCEPT ![c] = << >>]
           /\ UNCHANGED << server_id, accPc, request_msg, response_msg >>
           /\ UNCHANGED registryVars
           /\ UNCHANGED otherVars

\* mutant of ReadFailed: the end of the stream is returned as an error, like
\* a failed write
ReadFailedAsError(c, kind) ==
    HandlerEnd(c, IF kind = "UnexpectedEof" THEN "Err" ELSE "Ok")

\* handle_connection: read_from_stream returned Err(e); both arms break
ReadFailed(c, kind) == HandlerEnd(c, "Ok")

\* mutant of reply_to: the request's target id is echoed instead of its sender id
reply_to_echo_target(msg, payload, fresh) ==
    [sender_id |-> server_id, target_id |-> msg.target_id, message_id |-> fresh,
     payload |-> payload]

\* mutant of reply_to: the answer is given the message id of the request
reply_to_echo_message_id(msg, payload, fresh) ==
    [sender_id |-> server_id, target_id |-> Some(msg.sender_id),
     message_id |-> msg.message_id, payload |-> payload]

\* the message the handler sends in answer to msg
reply_to(msg, payload, fresh) ==
    ProtocolMessage_new(server_id, Some(msg.sender_id), payload, fresh)

\* mutant of DeserializeFailed: the loop continues without writing the error
DeserializeFailedNoReply(c, msg, fresh) ==
    /\ UNCHANGED << server_id, permits, accPc, sock, hpc, request_msg, response_msg,
                    answered, rx, hend >>
    /\ UNCHANGED registryVars
    /\ UNCHANGED otherVars

\* handle_connection: deserialize_request failed on msg; the error message is
\* built and its write begins
DeserializeFailed(c, msg, fresh) ==
    /\ hpc' = [hpc EXCEPT ![c] = "write"]
    /\ request_msg' = [request_msg EXCEPT ![c] = Some(msg)]
    /\ response_msg' = [response_msg EXCEPT ![c] =
         Some(reply_to(msg, [kind |-> "error", error |-> "Invalid request format"],
                       fresh))]
    /\ UNCHANGED << server_id, permits, accPc, sock, answered, rx, hend >>
    /\ UNCHANGED registryVars
    /\ UNCHANGED otherVars

\* the message just read, with its position in the connection's stream
AtPos(msg, k) ==
    [sender_id |-> msg.sender_id, target_id |-> msg.target_id,
     message_id |-> msg.message_id, payload |-> msg.payload, pos |-> k]

\* handle_connection: one read_from_stream and what follows it up to the next
\* await
HandlerRead(c, w) ==
    /\ hpc[c] = "read"
    /\ LET r == read_from_stream(w)
       IN  IF ~ r.ok
             THEN /\ rx' = [rx EXCEPT ![c] = r.kind]
                  /\ ReadFailed(c, r.kind)
             ELSE /\ nRead[c] < MaxFrames
                  /\ OneTalker(c)
                  /\ nRead' = [nRead EXCEPT ![c] = @ + 1]
                  /\ IF ~ deserialize_request(r.msg[1].payload).ok
                       THEN \E fresh \in Uuids :
                              DeserializeFailed(c, AtPos(r.msg[1], nRead[c] + 1), fresh)
                       ELSE /\ hpc' = [hpc EXCEPT ![c] = "embed"]
                            /\ request_msg' = [request_msg EXCEPT ![c] =
                                 Some(AtPos(r.msg[1], nRead[c] + 1))]
                            /\ UNCHANGED << server_id, permits, accPc, sock,
                                            response_msg, answered, rx, hend >>
                            /\ UNCHANGED registryVars
                            /\ UNCHANGED otherVars

\* handle_connection: the embedding call returned; the response or the error
\* message is built and its write begins
HandlerEmbed(c, infer, fresh) ==
    /\ hpc[c] = "embed"
    /\ LET msg == request_msg[c][1]
           res == manager_embed(deserialize_request(msg.payload), infer)
           payload == IF res.ok
                        THEN [kind |-> "embedding", error |-> ""]
                        ELSE [kind |-> "error", error |-> "Embedding failed"]
       IN  response_msg' = [response_msg EXCEPT ![c] = Some(reply_to(msg, payload, fresh))]
    /\ hpc' = [hpc EXCEPT ![c] = "write"]
    /\ UNCHANGED << server_id, permits, accPc, sock, request_msg, nRead, answered,
                    rx, hend >>
    /\ UNCHANGED registryVars
    /\ UNCHANGED otherVars

\* mutant of WriteOk: after an error message the handler returns
WriteOkCloseOnError(c) ==
    /\ hpc[c] = "write"
    /\ answered' = [answered EXCEPT ![c] =
         Append(@, [pos |-> request_msg[c][1].pos,
                    kind |-> response_msg[c][1].payload.kind])]
    /\ IF response_msg[c][1].payload.kind = "error"
         THEN /\ hpc' = [hpc EXCEPT ![c] = "none"]
              /\ sock' = [sock EXCEPT ![c] = "closed"]
              /\ permits' = permits + 1
         ELSE /\ hpc' = [hpc EXCEPT ![c] = "read"]
              /\ UNCHANGED << sock, permits >>
    /\ request_msg' = [request_msg EXCEPT ![c] = None]
    /\ response_msg' = [response_msg EXCEPT ![c] = None]
    /\ UNCHANGED << server_id, accPc, nRead, rx, hend >>
    /\ UNCHANGED registryVars
    /\ UNCHANGED otherVars

\* write_to_stream succeeded: the message is on the wire and the loop goes on
WriteOk(c) ==
    /\ hpc[c] = "write"
    /\ answered' = [answered EXCEPT ![c] =
         Append(@, [pos |-> request_msg[c][1].pos,
                    kind |-> response_msg[c][1].payload.kind])]
    /\ hpc' = [hpc EXCEPT ![c] = "read"]
    /\ request_msg' = [request_msg EXCEPT ![c] = None]
    /\ response_msg' = [response_msg EXCEPT ![c] = None]
    /\ UNCHANGED << server_id, permits, accPc, sock, nRead, rx, hend >>
    /\ UNCHANGED registryVars
    /\ UNCHANGED otherVars

\* write_to_stream failed: `?` returns the error from handle_connection
WriteErr(c) ==
    /\ hpc[c] = "write"
    /\ HandlerEnd(c, "Err")
    /\ UNCHANGED rx

\* the state EmbeddingServer::new leaves: the enabled models loaded, every
\* permit free, no client yet
Init ==
    /\ server_id \in Uuids
    /\ permits = MaxConnections
    /\ accPc = "accept"
    /\ sock = [c \in Conns |-> "idle"]
    /\ hpc = [c \in Conns |-> "none"]
    /\ request_msg = [c \in Conns |-> None]
    /\ response_msg = [c \in Conns |-> None]
    /\ nRead = [c \in Conns |-> 0]
    /\ answered = [c \in Conns |-> << >>]
    /\ rx = [c \in Conns |-> ""]
    /\ hend = [c \in Conns |-> ""]
    /\ models = Insert(EmptyMap, DefaultModel, Handle(DefaultModel, TRUE))
    /\ model_infos = Insert(EmptyMap, DefaultModel, ModelInfoOf(DefaultModel))
    /\ RegistryIdle
    /\ InferIdle
    /\ ReloadIdle
    /\ CodecIdle
    /\ LaterIdle

Next ==
    \/ \E c \in Conns : ClientConnect(c)
    \/ \E c \in Conns : Admit(c)
    \/ \E c \in Conns : Reject(c)
    \/ AcceptErr
    \/ SleepDone
    \/ \E c \in Conns, w \in WireInputs : HandlerRead(c, w)
    \/ \E c \in Conns, infer \in {"ok", "InferenceError"}, fresh \in Uuids :
         HandlerEmbed(c, infer, fresh)
    \/ \E c \in Conns : WriteOk(c)
    \/ \E c \in Conns : WriteErr(c)

Spec == Init /\ [][Next]_vars

\* ------------------------------------------------- the registry's operations
\* model_infos is locked for one insert, remove, clear or read at a time, with
\* no await under the lock; models is write-locked across an await by
\* unload_model and shutdown_all alone, which modelsW records.

\* ModelRegistry::get_model_info
get_model_info(name) ==
    IF name \in DOMAIN model_infos THEN Some(model_infos[name]) ELSE None

\* ModelRegistry::is_model_loaded
is_model_loaded(name) == name \in DOMAIN models

\* a caller begins a call: its last result is forgotten
Begin(p, op, name) ==
    /\ rop' = [rop EXCEPT ![p] = op]
    /\ rname' = [rname EXCEPT ![p] = name]
    /\ rres' = [rres EXCEPT ![p] = ""]

\* a caller's call returns
Return(p, res) ==
    /\ rpc' = [rpc EXCEPT ![p] = "idle"]
    /\ rres' = [rres EXCEPT ![p] = res]

\* load_model: ModelFactory::create_model boxes a model whose engine is None
LoadCreate(p, name) ==
    /\ rpc[p] = "idle"
    /\ Begin(p, "load_model", name)
    /\ rmodel' = [rmodel EXCEPT ![p] = Some(Handle(name, FALSE))]
    /\ rpc' = [rpc EXCEPT ![p] = "initialize"]
    /\ UNCHANGED << models, model_infos, modelsW, seen >>
    /\ UNCHANGED serverVars
    /\ UNCHANGED otherVars

\* mutant of LoadInitialize: the ModelInfo is stored before the engine is
\* initialised
LoadInitializePartial(p, ok) ==
    /\ rpc[p] = "initialize"
    /\ model_infos' = Insert(model_infos, rname[p], rmodel[p][1].info)
    /\ IF ok
         THEN /\ rmodel' = [rmodel EXCEPT ![p] = Some(Handle(rname[p], TRUE))]
              /\ rpc' = [rpc EXCEPT ![p] = "insert_info"]
              /\ UNCHANGED rres
         ELSE /\ rmodel' = [rmodel EXCEPT ![p] = None]
              /\ Return(p, "Err")
    /\ UNCHANGED << models, modelsW, rop, rname, seen >>
    /\ UNCHANGED serverVars
    /\ UNCHANGED otherVars

\* mutant of LoadInitialize: the error of initialize is dropped and the load
\* goes on
LoadInitializeIgnoreError(p, ok) ==
    /\ rpc[p] = "initialize"
    /\ rmodel' = [rmodel EXCEPT ![p] = Some(Handle(rname[p], ok))]
    /\ rpc' = [rpc EXCEPT ![p] = "insert_info"]
    /\ UNCHANGED << models, model_infos, modelsW, rop, rname, rres, seen >>
    /\ UNCHANGED serverVars
    /\ UNCHANGED otherVars

\* load_model: model.initialize().await?; OnnxEmbeddingModel::initialize sets
\* the engine when OnnxEmbeddingEngine::new succeeds, else the error returns
LoadInitialize(p, ok) ==
    /\ rpc[p] = "initialize"
    /\ IF ok
         THEN /\ rmodel' = [rmodel EXCEPT ![p] = Some(Handle(rname[p], TRUE))]
              /\ rpc' = [rpc EXCEPT ![p] = "insert_info"]
              /\ UNCHANGED rres
         ELSE /\ rmodel' = [rmodel EXCEPT ![p] = None]
              /\ Return(p, "Err")
    /\ UNCHANGED << models, model_infos, modelsW, rop, rname, seen >>
    /\ UNCHANGED serverVars
    /\ UNCHANGED otherVars

\* load_model: the ModelInfo is stored under the write lock of model_infos
LoadInsertInfo(p) ==
    /\ rpc[p] = "insert_info"
    /\ model_infos' = Insert(model_infos, rname[p], rmodel[p][1].info)
    /\ rpc' = [rpc EXCEPT ![p] = "insert_model"]
    /\ UNCHANGED << models, modelsW, rop, rname, rmodel, rres, seen >>
    /\ UNCHANGED serverVars
    /\ UNCHANGED otherVars

\* load_model: the model is stored under the write lock of models; Ok returns
LoadInsertModel(p) ==
    /\ rpc[p] = "insert_model"
    /\ modelsW = "free"
    /\ models' = Insert(models, rname[p], rmodel[p][1])
    /\ rmodel' = [rmodel EXCEPT ![p] = None]
    /\ Return(p, "Ok")
    /\ UNCHANGED << model_infos, modelsW, rop, rname, seen >>
    /\ UNCHANGED serverVars
    /\ UNCHANGED otherVars

\* mutant of UnloadRemove: the write lock of models is released before the
\* ModelInfo is removed
UnloadRemoveUnlocked(p, name) ==
    /\ rpc[p] = "idle"
    /\ modelsW = "free"
    /\ rop' = [rop EXCEPT ![p] = "unload_model"]
    /\ rname' = [rname EXCEPT ![p] = name]
    /\ IF name \in DOMAIN models
         THEN /\ models' = Remove(models, name)
              /\ rpc' = [rpc EXCEPT ![p] = "remove_info"]
              /\ rres' = [rres EXCEPT ![p] = ""]
              /\ UNCHANGED modelsW
         ELSE /\ rpc' = rpc
              /\ rres' = [rres EXCEPT ![p] = "Err"]
              /\ UNCHANGED << models, modelsW >>
    /\ UNCHANGED << model_infos, rmodel, seen >>
    /\ UNCHANGED serverVars
    /\ UNCHANGED otherVars

\* unload_model: models is write-locked and the name removed; if it was there
\* the lock is kept for the then-branch, else ModelNotFound returns
UnloadRemove(p, name) ==
    /\ rpc[p] = "idle"
    /\ modelsW = "free"
    /\ rop' = [rop EXCEPT ![p] = "unload_model"]
    /\ rname' = [rname EXCEPT ![p] = name]
    /\ IF name \in DOMAIN models
         THEN /\ models' = Remove(models, name)
              /\ modelsW' = p
              /\ rpc' = [rpc EXCEPT ![p] = "remove_info"]
              /\ rres' = [rres EXCEPT ![p] = ""]
         ELSE /\ rpc' = rpc
              /\ rres' = [rres EXCEPT ![p] = "Err"]
              /\ UNCHANGED << models, modelsW >>
    /\ UNCHANGED << model_infos, rmodel, seen >>
    /\ UNCHANGED serverVars
    /\ UNCHANGED otherVars

\* mutant of UnloadRemoveInfo: the ModelInfo is left in its map
UnloadKeepInfo(p) ==
    /\ rpc[p] = "remove_info"
    /\ modelsW' = "free"
    /\ Return(p, "Ok")
    /\ UNCHANGED << models, model_infos, rop, rname, rmodel, seen >>
    /\ UNCHANGED serverVars
    /\ UNCHANGED otherVars

\* unload_model: the ModelInfo is removed, both locks are released, Ok returns
UnloadRemoveInfo(p) ==
    /\ rpc[p] = "remove_info"
    /\ model_infos' = Remove(model_infos, rname[p])
    /\ modelsW' = "free"
    /\ Return(p, "Ok")
    /\ UNCHANGED << models, rop, rname, rmodel, seen >>
    /\ UNCHANGED serverVars
    /\ UNCHANGED otherVars

\* shutdown_all: models is write-locked and cleared
ShutdownClear(p) ==
    /\ rpc[p] = "idle"
    /\ modelsW = "free"
    /\ Begin(p, "shutdown_all", "")
    /\ models' = EmptyMap
    /\ modelsW' = p
    /\ rpc' = [rpc EXCEPT ![p] = "clear_infos"]
    /\ UNCHANGED << model_infos, rmodel, seen >>
    /\ UNCHANGED serverVars
    /\ UNCHANGED otherVars

\* shutdown_all: model_infos is cleared, both locks are released, Ok returns
ShutdownClearInfos(p) ==
    /\ rpc[p] = "clear_infos"
    /\ model_infos' = EmptyMap
    /\ modelsW' = "free"
    /\ Return(p, "Ok")
    /\ UNCHANGED << models, rop, rname, rmodel, seen >>
    /\ UNCHANGED serverVars
    /\ UNCHANGED otherVars

\* the lookups an observer makes
LookupKinds == {"get_model", "is_model_loaded", "get_model_info"}

\* the lookups that read models, under its read lock
OfModels == {"get_model", "is_model_loaded"}

\* what a lookup returns now; get_model's caller asks the handle is_ready
LookupResult(kind, name) ==
    IF kind = "get_model"
      THEN IF get_model(name) = None THEN "absent"
           ELSE IF get_model(name)[1].engine THEN "ready" ELSE "not ready"
    ELSE IF kind = "is_model_loaded"
      THEN IF is_model_loaded(name) THEN "present" ELSE "absent"
    ELSE IF get_model_info(name) = None THEN "absent" ELSE "present"

\* a lookup waits while a writer holds the lock of the map it reads
CanRead(kind) == kind \in OfModels => modelsW = "free"

\* an observer's first lookup of a name
Lookup1(o, kind, name) ==
    /\ rpc[o] = "idle"
    /\ CanRead(kind)
    /\ seen' = [seen EXCEPT ![o] =
         [name |-> name, first |-> kind, r1 |-> LookupResult(kind, name),
          second |-> "", r2 |-> ""]]
    /\ rpc' = [rpc EXCEPT ![o] = "second"]
    /\ UNCHANGED << models, model_infos, modelsW, rop, rname, rmodel, rres >>
    /\ UNCHANGED serverVars
    /\ UNCHANGED otherVars

\* the observer's second lookup of the same name, in the other map
Lookup2(o, kind) ==
    /\ rpc[o] = "second"
    /\ (kind \in OfModels) # (seen[o].first \in OfModels)
    /\ CanRead(kind)
    /\ seen' = [seen EXCEPT ![o].second = kind,
                            ![o].r2 = LookupResult(kind, seen[o].name)]
    /\ rpc' = [rpc EXCEPT ![o] = "idle"]
    /\ UNCHANGED << models, model_infos, modelsW, rop, rname, rmodel, rres >>
    /\ UNCHANGED serverVars
    /\ UNCHANGED otherVars

\* ModelRegistry::new, and the server state left aside
InitRegistry ==
    /\ server_id \in {"u1"}
    /\ permits = MaxConnections
    /\ accPc = "accept"
    /\ sock = [c \in Conns |-> "idle"]
    /\ hpc = [c \in Conns |-> "none"]
    /\ request_msg = [c \in Conns |-> None]
    /\ response_msg = [c \in Conns |-> None]
    /\ nRead = [c \in Conns |-> 0]
    /\ answered = [c \in Conns |-> << >>]
    /\ rx = [c \in Conns |-> ""]
    /\ hend = [c \in Conns |-> ""]
    /\ models = EmptyMap
    /\ model_infos = EmptyMap
    /\ RegistryIdle
    /\ InferIdle
    /\ ReloadIdle
    /\ CodecIdle
    /\ LaterIdle

NextUnload ==
    \/ \E p \in Procs, name \in Names : UnloadRemove(p, name)
    \/ \E p \in Procs : UnloadRemoveInfo(p)
    \/ \E p \in Procs : ShutdownClear(p)
    \/ \E p \in Procs : ShutdownClearInfos(p)
    \/ \E o \in Observers, kind \in LookupKinds, name \in Names : Lookup1(o, kind, name)
    \/ \E o \in Observers, kind \in LookupKinds : Lookup2(o, kind)

NextRegistry ==
    \/ \E p \in Procs, name \in Names : LoadCreate(p, name)
    \/ \E p \in Procs, ok \in BOOLEAN : LoadInitialize(p, ok)
    \/ \E p \in Procs : LoadInsertInfo(p)
    \/ \E p \in Procs : LoadInsertModel(p)
    \/ NextUnload

SpecRegistry == InitRegistry /\ [][NextRegistry]_vars

\* the registry after load_from_config has loaded every name, no call running
InitLoaded ==
    /\ server_id \in {"u1"}
    /\ permits = MaxConnections
    /\ accPc = "accept"
    /\ sock = [c \in Conns |-> "idle"]
    /\ hpc = [c \in Conns |-> "none"]
    /\ request_msg = [c \in Conns |-> None]
    /\ response_msg = [c \in Conns |-> None]
    /\ nRead = [c \in Conns |-> 0]
    /\ answered = [c \in Conns |-> << >>]
    /\ rx = [c \in Conns |-> ""]
    /\ hend = [c \in Conns |-> ""]
    /\ models = [n \in Names |-> Handle(n, TRUE)]
    /\ model_infos = [n \in Names |-> ModelInfoOf(n)]
    /\ RegistryIdle
    /\ InferIdle
    /\ ReloadIdle
    /\ CodecIdle
    /\ LaterIdle

SpecUnload == InitLoaded /\ [][NextUnload]_vars

\* each caller loads and unloads a name of its own, so that no two calls on
\* one name overlap
Own == [p \in Procs |-> IF p = "p1" THEN "A" ELSE "B"]

NextOwn ==
    \/ \E p \in Procs : LoadCreate(p, Own[p])
    \/ \E p \in Procs, ok \in BOOLEAN : LoadInitialize(p, ok)
    \/ \E p \in Procs : LoadInsertInfo(p)
    \/ \E p \in Procs : LoadInsertModel(p)
    \/ \E p \in Procs : UnloadRemove(p, Own[p])
    \/ \E p \in Procs : UnloadRemoveInfo(p)
    \/ \E o \in Observers, kind \in LookupKinds, name \in Names : Lookup1(o, kind, name)
    \/ \E o \in Observers, kind \in LookupKinds : Lookup2(o, kind)

SpecOwn == InitRegistry /\ [][NextOwn]_vars

\* ------------------------------------------------------ the embedding tasks
\* The handlers and the HTTP gateway share one manager (&self): each call
\* resolves the handle under the read lock of models, which get_model releases
\* before it returns, and then runs the model's embed_text under the write
\* lock of that model's engine. No load is issued here, so a name stands for
\* the one model instance loaded under it.

\* the name a request resolves: the configured default model, or the one given
resolve_name(req) == IF req.model = None THEN config.default ELSE req.model[1]

ModelNotFound(name) ==
    [ok |-> FALSE, error |-> "ModelNotFound", model |-> name, stale |-> FALSE]

\* mutant of EmbedResolve: an unresolved name falls back to the default model
EmbedResolveFallback(w, req) ==
    /\ wpc[w] = "idle"
    /\ modelsW = "free"
    /\ wreq' = [wreq EXCEPT ![w] = req]
    /\ wguard' = [wguard EXCEPT ![w] = {}]
    /\ LET name == IF get_model(resolve_name(req)) = None THEN config.default
                   ELSE resolve_name(req)
           model == get_model(name)
       IN  IF model = None
             THEN /\ wres' = [wres EXCEPT ![w] = ModelNotFound(name)]
                  /\ UNCHANGED << wpc, wmodel >>
             ELSE /\ wmodel' = [wmodel EXCEPT ![w] =
                       Some([name |-> name, handle |-> model[1]])]
                  /\ wpc' = [wpc EXCEPT ![w] = "embed"]
                  /\ wres' = [wres EXCEPT ![w] = NoResult]
    /\ UNCHANGED << engineW, serverVars, registryVars, reloadVars, codecVars, laterVars >>

\* mutant of EmbedResolve: the read guard of models is kept while the handle
\* is in use
EmbedResolveKeepGuard(w, req) ==
    /\ wpc[w] = "idle"
    /\ modelsW = "free"
    /\ wreq' = [wreq EXCEPT ![w] = req]
    /\ LET name == resolve_name(req)
           model == get_model(name)
       IN  IF model = None
             THEN /\ wres' = [wres EXCEPT ![w] = ModelNotFound(name)]
                  /\ wguard' = [wguard EXCEPT ![w] = {}]
                  /\ UNCHANGED << wpc, wmodel >>
             ELSE /\ wmodel' = [wmodel EXCEPT ![w] =
                       Some([name |-> name, handle |-> model[1]])]
                  /\ wguard' = [wguard EXCEPT ![w] = {"models.read"}]
                  /\ wpc' = [wpc EXCEPT ![w] = "embed"]
                  /\ wres' = [wres EXCEPT ![w] = NoResult]
    /\ UNCHANGED << engineW, serverVars, registryVars, reloadVars, codecVars, laterVars >>

\* embed_text / embed_text_with_model up to the call of the model: get_model
\* (or get_default_model) under the read lock, ModelNotFound if it is None
EmbedResolve(w, req) ==
    /\ wpc[w] = "idle"
    /\ modelsW = "free"
    /\ wreq' = [wreq EXCEPT ![w] = req]
    /\ wguard' = [wguard EXCEPT ![w] = {}]
    /\ LET name == resolve_name(req)
           model == get_model(name)
       IN  IF model = None
             THEN /\ wres' = [wres EXCEPT ![w] = ModelNotFound(name)]
                  /\ UNCHANGED << wpc, wmodel >>
             ELSE /\ wmodel' = [wmodel EXCEPT ![w] =
                       Some([name |-> name, handle |-> model[1]])]
                  /\ wpc' = [wpc EXCEPT ![w] = "embed"]
                  /\ wres' = [wres EXCEPT ![w] = NoResult]
    /\ UNCHANGED << engineW, serverVars, registryVars, reloadVars, codecVars, laterVars >>

\* mutant of EmbedLock: the engine is locked for reading, which excludes no
\* other caller
EmbedLockShared(w) ==
    /\ wpc[w] = "embed"
    /\ LET name == wmodel[w][1].name
       IN  IF ~ wmodel[w][1].handle.engine
             THEN /\ wres' = [wres EXCEPT ![w] = ModelNotFound(name)]
                  /\ wpc' = [wpc EXCEPT ![w] = "idle"]
                  /\ wmodel' = [wmodel EXCEPT ![w] = None]
                  /\ UNCHANGED engineW
             ELSE /\ engineW' = [engineW EXCEPT ![name] = w]
                  /\ wpc' = [wpc EXCEPT ![w] = "run"]
                  /\ UNCHANGED << wres, wmodel >>
    /\ UNCHANGED << wreq, wguard, serverVars, registryVars, reloadVars, codecVars, laterVars >>

\* OnnxEmbeddingModel::embed_text: ModelNotFound if the engine is None, else
\* engine.write().await returns once no other task holds the engine's lock
EmbedLock(w) ==
    /\ wpc[w] = "embed"
    /\ LET name == wmodel[w][1].name
       IN  IF ~ wmodel[w][1].handle.engine
             THEN /\ wres' = [wres EXCEPT ![w] = ModelNotFound(name)]
                  /\ wpc' = [wpc EXCEPT ![w] = "idle"]
                  /\ wmodel' = [wmodel EXCEPT ![w] = None]
                  /\ UNCHANGED engineW
             ELSE /\ engineW[name] = "free"
                  /\ engineW' = [engineW EXCEPT ![name] = w]
                  /\ wpc' = [wpc EXCEPT ![w] = "run"]
                  /\ UNCHANGED << wres, wmodel >>
    /\ UNCHANGED << wreq, wguard, serverVars, registryVars, reloadVars, codecVars, laterVars >>

\* OnnxEmbeddingModel::embed_text: embed_texts returned; the lock guard and
\* the handle are dropped and the embedding or InferenceError returns
EmbedDone(w, infer) ==
    /\ wpc[w] = "run"
    /\ LET name == wmodel[w][1].name
       IN  /\ engineW' = [engineW EXCEPT ![name] = "free"]
           /\ wres' = [wres EXCEPT ![w] =
                [ok |-> infer = "ok",
                 error |-> IF infer = "ok" THEN "" ELSE "InferenceError",
                 model |-> name,
                 stale |-> ~ is_model_loaded(name) /\ get_model_info(name) = None]]
    /\ wpc' = [wpc EXCEPT ![w] = "idle"]
    /\ wmodel' = [wmodel EXCEPT ![w] = None]
    /\ UNCHANGED << wreq, wguard, serverVars, registryVars, reloadVars, codecVars, laterVars >>

\* the embedding tasks, with unload_model and shutdown_all called meanwhile
NextEmbed ==
    \/ \E w \in Workers, req \in Requests : EmbedResolve(w, req)
    \/ \E w \in Workers : EmbedLock(w)
    \/ \E w \in Workers, infer \in {"ok", "InferenceError"} : EmbedDone(w, infer)
    \/ \E p \in Procs, name \in Names : UnloadRemove(p, name)
    \/ \E p \in Procs : UnloadRemoveInfo(p)
    \/ \E p \in Procs : ShutdownClear(p)
    \/ \E p \in Procs : ShutdownClearInfos(p)

SpecEmbed == InitLoaded /\ [][NextEmbed]_vars

\* tokio's RwLock queues its waiters first-in first-out, so a task waiting for
\* an engine gets it after finitely many other holders (strong fairness of
\* EmbedLock); the engine's embed_texts is a finite computation (weak
\* fairness of EmbedDone)
SpecEmbedFair ==
    /\ SpecEmbed
    /\ \A w \in Workers : SF_vars(EmbedLock(w))
    /\ \A w \in Workers : WF_vars(\E infer \in {"ok", "InferenceError"} : EmbedDone(w, infer))

\* the same with the lookups of an observer
NextInfer ==
    \/ NextEmbed
    \/ \E o \in Observers, kind \in LookupKinds, name \in Names : Lookup1(o, kind, name)
    \/ \E o \in Observers, kind \in LookupKinds : Lookup2(o, kind)

SpecInfer == InitLoaded /\ [][NextInfer]_vars

\* ---------------------------------------------- initialize and reload_config
\* Both take the manager by &mut self: no other call on the manager or its
\* registry overlaps them. The task that holds the manager makes its registry
\* calls as caller Manager; Begin marks a call as issued, the registry steps
\* carry it out, and the manager goes on once the call has returned.

Manager == "p1"

\* mutant of ReloadBegin: the new configuration is taken without validate
ReloadBeginNoValidate(new, readable) ==
    /\ mpc = "idle"
    /\ rpc[Manager] = "idle"
    /\ ~ (mcall = "initialize" /\ mres # "Ok")
    /\ mcall' = "reload_config"
    /\ mfailed' = {}
    /\ mloaded' = {}
    /\ IF ~ readable
         THEN /\ mres' = "IoError"
              /\ UNCHANGED << mpc, mnew, rop, rname, rres >>
         ELSE /\ mres' = ""
              /\ mnew' = Some(new)
              /\ mpc' = "shutdown_all"
              /\ Begin(Manager, "reload_config", "")
    /\ UNCHANGED << config, todo, mnext >>
    /\ UNCHANGED << models, model_infos, modelsW, rpc, rmodel, seen >>
    /\ UNCHANGED << serverVars, inferVars, codecVars, laterVars >>

\* mutant of ReloadBegin: the configuration read from the file is assigned to
\* self.config before validate has checked it
ReloadBeginAssignFirst(new, readable) ==
    /\ mpc = "idle"
    /\ rpc[Manager] = "idle"
    /\ ~ (mcall = "initialize" /\ mres # "Ok")
    /\ mcall' = "reload_config"
    /\ mfailed' = {}
    /\ mloaded' = {}
    /\ IF ~ readable
         THEN /\ mres' = "IoError"
              /\ UNCHANGED << config, mpc, mnew, rop, rname, rres >>
         ELSE IF validate(new) # "Ok"
           THEN /\ mres' = "ConfigError"
                /\ config' = new
                /\ UNCHANGED << mpc, mnew, rop, rname, rres >>
           ELSE /\ mres' = ""
                /\ mnew' = Some(new)
                /\ mpc' = "shutdown_all"
                /\ Begin(Manager, "reload_config", "")
                /\ UNCHANGED config
    /\ UNCHANGED << todo, mnext >>
    /\ UNCHANGED << models, model_infos, modelsW, rpc, rmodel, seen >>
    /\ UNCHANGED << serverVars, inferVars, codecVars, laterVars >>

\* reload_config: from_file reads the new configuration and validate checks
\* it; an error of either returns at once
ReloadBegin(new, readable) ==
    /\ mpc = "idle"
    /\ rpc[Manager] = "idle"
    /\ ~ (mcall = "initialize" /\ mres # "Ok")
    /\ mcall' = "reload_config"
    /\ mfailed' = {}
    /\ mloaded' = {}
    /\ IF ~ readable
         THEN /\ mres' = "IoError"
              /\ UNCHANGED << mpc, mnew, rop, rname, rres >>
         ELSE IF validate(new) # "Ok"
           THEN /\ mres' = "ConfigError"
                /\ UNCHANGED << mpc, mnew, rop, rname, rres >>
           ELSE /\ mres' = ""
                /\ mnew' = Some(new)
                /\ mpc' = "shutdown_all"
                /\ Begin(Manager, "reload_config", "")
    /\ UNCHANGED << config, todo, mnext >>
    /\ UNCHANGED << models, model_infos, modelsW, rpc, rmodel, seen >>
    /\ UNCHANGED << serverVars, inferVars, codecVars, laterVars >>

\* reload_config: self.registry.shutdown_all() is called
ReloadShutdown ==
    /\ mpc = "shutdown_all"
    /\ rres[Manager] = ""
    /\ ShutdownClear(Manager)

\* mutant of ReloadSetConfig: self.config is left as it was
ReloadSetConfigKeepOld ==
    /\ mpc = "shutdown_all"
    /\ rpc[Manager] = "idle"
    /\ rres[Manager] = "Ok"
    /\ mpc' = "load_from_config"
    /\ todo' = mnew[1].models
    /\ Begin(Manager, "load_from_config", "")
    /\ UNCHANGED << config, mcall, mnew, mnext, mres, mfailed, mloaded >>
    /\ UNCHANGED << models, model_infos, modelsW, rpc, rmodel, seen >>
    /\ UNCHANGED << serverVars, inferVars, codecVars, laterVars >>

\* reload_config: shutdown_all has returned Ok; self.config = new_config and
\* initialize calls load_from_config, whose loop is over config.models
ReloadSetConfig ==
    /\ mpc = "shutdown_all"
    /\ rpc[Manager] = "idle"
    /\ rres[Manager] = "Ok"
    /\ config' = mnew[1]
    /\ mpc' = "load_from_config"
    /\ todo' = mnew[1].models
    /\ Begin(Manager, "load_from_config", "")
    /\ UNCHANGED << mcall, mnew, mnext, mres, mfailed, mloaded >>
    /\ UNCHANGED << models, model_infos, modelsW, rpc, rmodel, seen >>
    /\ UNCHANGED << serverVars, inferVars, codecVars, laterVars >>

\* load_from_config: the loop comes to a model it has not visited, in the
\* HashMap's order; a model that is not enabled is passed over
LoadFromConfigPick(name) ==
    /\ mpc = "load_from_config"
    /\ rpc[Manager] = "idle"
    /\ mnext = None
    /\ name \in todo
    /\ todo' = todo \ {name}
    /\ IF name \in config.enabled
         THEN /\ mnext' = Some(name)
              /\ Begin(Manager, "load_from_config", name)
         ELSE UNCHANGED << mnext, rop, rname, rres >>
    /\ UNCHANGED << config, mpc, mcall, mnew, mres, mfailed, mloaded >>
    /\ UNCHANGED << models, model_infos, modelsW, rpc, rmodel, seen >>
    /\ UNCHANGED << serverVars, inferVars, codecVars, laterVars >>

\* load_from_config: self.load_model(model_config) is called
LoadFromConfigLoad ==
    /\ mpc = "load_from_config"
    /\ mnext # None
    /\ rres[Manager] = ""
    /\ LoadCreate(Manager, mnext[1])

\* load_from_config: load_model has returned; `?` returns its error from the
\* loop, from initialize and from reload_config, else the loop goes on
LoadFromConfigLoaded ==
    /\ mpc = "load_from_config"
    /\ mnext # None
    /\ rpc[Manager] = "idle"
    /\ rres[Manager] \in {"Ok", "Err"}
    /\ mnext' = None
    /\ IF rres[Manager] = "Ok"
         THEN /\ mloaded' = mloaded \cup {mnext[1]}
              /\ UNCHANGED << mpc, todo, mres, mfailed >>
         ELSE /\ mfailed' = mfailed \cup {mnext[1]}
              /\ mres' = "ModelLoadFailed"
              /\ mpc' = "idle"
              /\ todo' = {}
              /\ UNCHANGED mloaded
    /\ UNCHANGED << config, mcall, mnew >>
    /\ UNCHANGED registryVars
    /\ UNCHANGED << serverVars, inferVars, codecVars, laterVars >>

\* load_from_config: the loop is over; Ok returns from initialize
LoadFromConfigReturn ==
    /\ mpc = "load_from_config"
    /\ rpc[Manager] = "idle"
    /\ mnext = None
    /\ todo = {}
    /\ mres' = "Ok"
    /\ mpc' = "idle"
    /\ UNCHANGED << config, mcall, mnew, todo, mnext, mfailed, mloaded >>
    /\ UNCHANGED registryVars
    /\ UNCHANGED << serverVars, inferVars, codecVars, laterVars >>

\* EmbeddingServer::new has built the manager from a configuration that
\* validate accepted, on an empty registry, and calls initialize
InitManager ==
    /\ server_id \in {"u1"}
    /\ permits = MaxConnections
    /\ accPc = "accept"
    /\ sock = [c \in Conns |-> "idle"]
    /\ hpc = [c \in Conns |-> "none"]
    /\ request_msg = [c \in Conns |-> None]
    /\ response_msg = [c \in Conns |-> None]
    /\ nRead = [c \in Conns |-> 0]
    /\ answered = [c \in Conns |-> << >>]
    /\ rx = [c \in Conns |-> ""]
    /\ hend = [c \in Conns |-> ""]
    /\ models = EmptyMap
    /\ model_infos = EmptyMap
    /\ RegistryIdle
    /\ InferIdle
    /\ CodecIdle
    /\ LaterIdle
    /\ config \in { c \in Configs : validate(c) = "Ok" }
    /\ mpc = "load_from_config"
    /\ mcall = "initialize"
    /\ mnew = None
    /\ todo = config.models
    /\ mnext = None
    /\ mres = ""
    /\ mfailed = {}
    /\ mloaded = {}

NextManager ==
    \/ \E new \in Configs, readable \in BOOLEAN : ReloadBegin(new, readable)
    \/ ReloadShutdown
    \/ ShutdownClearInfos(Manager)
    \/ ReloadSetConfig
    \/ \E name \in Names : LoadFromConfigPick(name)
    \/ LoadFromConfigLoad
    \/ \E ok \in BOOLEAN : LoadInitialize(Manager, ok)
    \/ LoadInsertInfo(Manager)
    \/ LoadInsertModel(Manager)
    \/ LoadFromConfigLoaded
    \/ LoadFromConfigReturn

SpecManager == InitManager /\ [][NextManager]_vars

\* ------------------------------------------------- the envelope on the wire
\* A stream is a sequence of runs [b, n]: the byte b, n times over. A count of
\* bytes (usize) is the pair << hi, lo >> for hi * 2^16 + lo, so that a payload
\* of 2^32 bytes and more can be written down.

Limb == 2 ^ 16

MSG_TYPE_DATA == 4

SzOf(k) == << k \div Limb, k % Limb >>

SzAdd(a, b) == << a[1] + b[1] + ((a[2] + b[2]) \div Limb), (a[2] + b[2]) % Limb >>

SzLeq(a, b) == a[1] < b[1] \/ (a[1] = b[1] /\ a[2] <= b[2])

\* a - b, for b <= a
SzSub(a, b) ==
    IF a[2] >= b[2] THEN << a[1] - b[1], a[2] - b[2] >>
    ELSE << a[1] - b[1] - 1, a[2] + Limb - b[2] >>

\* `len as u32`: the count modulo 2^32
as_u32(sz) == << sz[1] % Limb, sz[2] >>

\* write_u32_le / read_u32_le
to_le_bytes(u) == << u[2] % 256, u[2] \div 256, u[1] % 256, u[1] \div 256 >>

from_le_bytes(b) == << b[3] + 256 * b[4], b[1] + 256 * b[2] >>

\* the bytes given one by one
Lit(bytes) == [i \in 1 .. Len(bytes) |-> [b |-> bytes[i], n |-> SzOf(1)]]

RECURSIVE RunsLen(_)
\* Vec::len
RunsLen(runs) ==
    IF runs = << >> THEN SzOf(0) ELSE SzAdd(Head(runs).n, RunsLen(Tail(runs)))

RECURSIVE Canon(_)
\* the same bytes with no empty run and no two adjacent runs of one byte
Canon(runs) ==
    IF runs = << >> THEN << >>
    ELSE LET r == Head(runs)
             t == Canon(Tail(runs))
         IN  IF r.n = SzOf(0) THEN t
             ELSE IF t # << >> /\ t[1].b = r.b
               THEN << [b |-> r.b, n |-> SzAdd(r.n, t[1].n)] >> \o Tail(t)
             ELSE << r >> \o t

RECURSIVE read_exact(_, _)
\* read_exact of n bytes: the bytes and the stream left, or UnexpectedEof
read_exact(st, n) ==
    IF n = SzOf(0) THEN [ok |-> TRUE, data |-> << >>, rest |-> st]
    ELSE IF st = << >> THEN [ok |-> FALSE, data |-> << >>, rest |-> << >>]
    ELSE LET r == Head(st)
         IN  IF SzLeq(r.n, n)
               THEN LET t == read_exact(Tail(st), SzSub(n, r.n))
                    IN  [ok |-> t.ok, data |-> << r >> \o t.data, rest |-> t.rest]
               ELSE [ok |-> TRUE, data |-> << [b |-> r.b, n |-> n] >>,
                     rest |-> << [b |-> r.b, n |-> SzSub(r.n, n)] >> \o Tail(st)]

RECURSIVE Expand(_)
\* the bytes of a short read, one by one
Expand(runs) ==
    IF runs = << >> THEN << >>
    ELSE [i \in 1 .. Head(runs).n[2] |-> Head(runs).b] \o Expand(Tail(runs))

\* Uuid::as_bytes
as_bytes(u) == [i \in 1 .. 16 |-> IF i < 16 THEN 0 ELSE IF u = "u1" THEN 1 ELSE 2]

\* Uuid::from_bytes
from_bytes(b) ==
    IF \E u \in Uuids : as_bytes(u) = b
      THEN CHOOSE u \in Uuids : as_bytes(u) = b
      ELSE "other"

\* ProtocolMessage::write_to_stream: the bytes it puts on the stream
write_to_stream(m) ==
    Lit(MAGIC_BYTES)
      \o Lit(<< VERSION >>)
      \o Lit(<< MSG_TYPE_DATA >>)
      \o Lit(to_le_bytes(as_u32(RunsLen(m.payload))))
      \o Lit(as_bytes(m.sender_id))
      \o (IF m.target_id # None
            THEN Lit(<< 1 >>) \o Lit(as_bytes(m.target_id[1]))
            ELSE Lit(<< 0 >>))
      \o Lit(as_bytes(m.message_id))
      \o m.payload

\* mutant of Eof: a field the stream is too short for is reported as a frame
\* that does not decode
EofAsInvalidData(st) ==
    [ok |-> FALSE, kind |-> "InvalidData", what |-> "Truncated frame", msg |-> None,
     rest |-> st]

\* the io::Error of a read_exact that met the end of the stream
Eof(st) == [ok |-> FALSE, kind |-> "UnexpectedEof", what |-> "", msg |-> None, rest |-> st]

\* mutant of read_from_bytes: the version byte is checked before the magic
read_from_bytes_version_first(st) ==
    LET magic == read_exact(st, SzOf(4))
        version == read_exact(magic.rest, SzOf(1))
    IN  IF ~ magic.ok THEN Eof(magic.rest)
        ELSE IF ~ version.ok THEN Eof(version.rest)
        ELSE IF Expand(version.data) # << VERSION >>
          THEN [ok |-> FALSE, kind |-> "InvalidData", what |-> "Unsupported version",
                msg |-> None, rest |-> version.rest]
        ELSE IF Expand(magic.data) # MAGIC_BYTES
          THEN [ok |-> FALSE, kind |-> "InvalidData", what |-> "Invalid magic bytes",
                msg |-> None, rest |-> magic.rest]
        ELSE Eof(version.rest)

\* ProtocolMessage::read_from_stream on the bytes of a stream: the message and
\* the stream left unread
read_from_bytes(st) ==
    LET magic == read_exact(st, SzOf(4))
        version == read_exact(magic.rest, SzOf(1))
        msg_type == read_exact(version.rest, SzOf(1))
        length == read_exact(msg_type.rest, SzOf(4))
        sender == read_exact(length.rest, SzOf(16))
        tag == read_exact(sender.rest, SzOf(1))
        target == IF tag.ok /\ Expand(tag.data) = << 1 >>
                    THEN read_exact(tag.rest, SzOf(16))
                    ELSE [ok |-> TRUE, data |-> << >>, rest |-> tag.rest]
        message == read_exact(target.rest, SzOf(16))
        payload == read_exact(message.rest, from_le_bytes(Expand(length.data)))
    IN  IF ~ magic.ok THEN Eof(magic.rest)
        ELSE IF Expand(magic.data) # MAGIC_BYTES
          THEN [ok |-> FALSE, kind |-> "InvalidData", what |-> "Invalid magic bytes",
                msg |-> None, rest |-> magic.rest]
        ELSE IF ~ version.ok THEN Eof(version.rest)
        ELSE IF Expand(version.data) # << VERSION >>
          THEN [ok |-> FALSE, kind |-> "InvalidData", what |-> "Unsupported version",
                msg |-> None, rest |-> version.rest]
        ELSE IF ~ msg_type.ok THEN Eof(msg_type.rest)
        ELSE IF ~ length.ok THEN Eof(length.rest)
        ELSE IF ~ sender.ok THEN Eof(sender.rest)
        ELSE IF ~ tag.ok THEN Eof(tag.rest)
        ELSE IF ~ target.ok THEN Eof(target.rest)
        ELSE IF ~ message.ok THEN Eof(message.rest)
        ELSE IF ~ payload.ok THEN Eof(payload.rest)
        ELSE [ok |-> TRUE, kind |-> "", what |-> "",
              msg |-> Some([sender_id |-> from_bytes(Expand(sender.data)),
                            target_id |-> IF Expand(tag.data) = << 1 >>
                                            THEN Some(from_bytes(Expand(target.data)))
                                            ELSE None,
                            message_id |-> from_bytes(Expand(message.data)),
                            payload |-> Canon(payload.data)]),
              rest |-> Canon(payload.rest)]

\* payloads: none, one byte, three bytes, 2^16 bytes, 2^32 bytes, 2^32 + 1 bytes
CodecPayloads ==
    { << >>,
      << [b |-> 7, n |-> SzOf(1)] >>,
      << [b |-> 7, n |-> SzOf(2)], [b |-> 9, n |-> SzOf(1)] >>,
      << [b |-> 3, n |-> << 1, 0 >>] >>,
      << [b |-> 0, n |-> << Limb, 0 >>] >>,
      << [b |-> 5, n |-> << Limb, 1 >>] >> }

\* every ProtocolMessage over these ids and payloads
CodecMessages ==
    [sender_id : Uuids, target_id : {None} \cup { Some(u) : u \in Uuids },
     message_id : Uuids, payload : CodecPayloads]

\* what follows the message on the stream: nothing, or the first byte of the
\* next message
Trails == { << >>, Lit(<< 79 >>) }

\* a message is made up, with what will follow it on the stream
CodecNew(m, trail) ==
    /\ cpc = "idle"
    /\ cmsg' = Some(m)
    /\ ctrail' = trail
    /\ cpc' = "new"
    /\ UNCHANGED << cwire, cout >>
    /\ UNCHANGED << serverVars, registryVars, inferVars, reloadVars, laterVars >>

\* write_to_stream puts the message on the stream
CodecWrite ==
    /\ cpc = "new"
    /\ cwire' = write_to_stream(cmsg[1]) \o ctrail
    /\ cpc' = "written"
    /\ UNCHANGED << cmsg, ctrail, cout >>
    /\ UNCHANGED << serverVars, registryVars, inferVars, reloadVars, laterVars >>

\* read_from_stream reads the stream from its start
CodecRead ==
    /\ cpc = "written"
    /\ cout' = Some(read_from_bytes(cwire))
    /\ cpc' = "read"
    /\ UNCHANGED << cmsg, ctrail, cwire >>
    /\ UNCHANGED << serverVars, registryVars, inferVars, reloadVars, laterVars >>

NextCodec ==
    \/ \E m \in CodecMessages, trail \in Trails : CodecNew(m, trail)
    \/ CodecWrite
    \/ CodecRead

SpecCodec == InitRegistry /\ [][NextCodec]_vars

\* ------------------------------------------------------ the connection server

\* the clients whose handler task is running
Handlers == { c \in Conns : hpc[c] # "none" }

\* C1: in every reachable state the number of running handler tasks is at
\* most max_connections, and no more permits are out than the semaphore has
C1_HandlersAtMostMax ==
    /\ Cardinality(Handlers) <= MaxConnections
    /\ permits >= 0

\* every permit is held by a handler while one more client waits in the backlog
C1_Witness ==
    /\ Cardinality(Handlers) = MaxConnections
    /\ \E c \in Conns : sock[c] = "backlog"

\* C2: a socket accepted while no permit is free is dropped in that same step:
\* no handler is spawned, no permit changes hands, and the loop is back at
\* accept
C2_DropWhenFull ==
    [][\A c \in Conns :
         (sock[c] = "backlog" /\ sock'[c] # "backlog" /\ permits = 0)
           => /\ sock'[c] = "dropped"
              /\ hpc' = hpc
              /\ permits' = 0
              /\ accPc' = "accept"]_vars

\* a socket was dropped while every permit was held, and the loop accepts again
C2_Witness ==
    /\ \E c \in Conns : sock[c] = "dropped"
    /\ Cardinality(Handlers) = MaxConnections
    /\ accPc = "accept"

\* C3: the permits held are exactly as many as the live handlers, whatever
\* ended the handlers before, and a waiting socket is admitted whenever fewer
\* than max_connections handlers live
C3_PermitsMatchHandlers ==
    /\ MaxConnections - permits = Cardinality(Handlers)
    /\ \A c \in Conns :
         (sock[c] = "backlog" /\ accPc = "accept"
            /\ Cardinality(Handlers) < MaxConnections)
           => ENABLED Admit(c)

\* more clients than permits have been admitted, one handler having ended on a
\* write failure and one on a failed read
C3_Witness ==
    /\ \A c \in Conns : sock[c] \in {"open", "closed"}
    /\ \E c \in Conns : hend[c] = "Err"
    /\ \E c \in Conns : hend[c] = "Ok" /\ rx[c] = "InvalidData"
    /\ \E c \in Conns : sock[c] = "open"

\* the positions 1 .. n, each with some payload kind
InOrder(seq, n) ==
    /\ Len(seq) = n
    /\ \A k \in 1 .. n : seq[k].pos = k

\* C4: whenever a handler is about to read, it has written exactly one message
\* for every frame read so far, the k-th message answering the k-th frame;
\* while a request is in processing, only the answer to that request is missing
C4_OneResponsePerRequest ==
    \A c \in Conns :
      /\ hpc[c] = "read" => InOrder(answered[c], nRead[c])
      /\ hpc[c] \in {"embed", "write"} =>
           /\ InOrder(answered[c], nRead[c] - 1)
           /\ request_msg[c] # None
           /\ request_msg[c][1].pos = nRead[c]

\* a handler has answered two requests, one with an error, and reads on
C4_Witness ==
    \E c \in Conns :
      /\ hpc[c] = "read"
      /\ nRead[c] = 2
      /\ Len(answered[c]) = 2
      /\ answered[c][1].kind = "error"

\* C5, as stated: after a frame that fails to decode the connection is open,
\* its handler sending an error message or reading the next frame
C5_DecodeErrorKeepsOpen ==
    \A c \in Conns :
      rx[c] = "InvalidData" => (sock[c] = "open" /\ hpc[c] \in {"write", "read"})

\* C5, amended: a frame that fails to decode ends the handler: no message is
\* sent for it, handle_connection returns Ok and the connection is closed
C5_DecodeErrorCloses ==
    \A c \in Conns :
      rx[c] = "InvalidData" =>
        /\ sock[c] = "closed"
        /\ hpc[c] = "none"
        /\ response_msg[c] = None
        /\ hend[c] = "Ok"

\* a handler has met a frame that does not decode
C5_Witness == \E c \in Conns : rx[c] = "InvalidData" /\ sock[c] = "closed"

\* the handlers that are writing an error message
WritingError ==
    { c \in Conns : hpc[c] = "write" /\ response_msg[c][1].payload.kind = "error" }

\* C6, as stated: an error message carries the message id of the request that
\* caused it
C6_ErrorCarriesMessageId ==
    \A c \in WritingError :
      response_msg[c][1].message_id = request_msg[c][1].message_id

\* C6, amended: an error message refers to the request that caused it by its
\* target id alone, which is present and is the sender id of that request
C6_ErrorTargetsSender ==
    \A c \in WritingError :
      response_msg[c][1].target_id = Some(request_msg[c][1].sender_id)

\* an error message is being written whose message id is not the request's
C6_Witness ==
    \E c \in WritingError :
      response_msg[c][1].message_id # request_msg[c][1].message_id

\* the model a request names, or the default model
NamedModel(msg) ==
    IF msg.payload.model = None THEN DefaultModel ELSE msg.payload.model[1]

\* C7: a payload that is no embed-request, and a request for a model that is
\* not in the registry, are answered with an error message; the embedding call
\* always leads to a write on the open connection, whatever it returned; and
\* once an error message is written the handler reads on the same connection
C7_RequestErrorKeepsOpen ==
    [][\A c \in Conns :
         /\ (hpc[c] = "read" /\ nRead'[c] = nRead[c] + 1
               /\ ~ request_msg'[c][1].payload.wf)
              => (c \in WritingError' /\ sock'[c] = "open")
         /\ (hpc[c] = "embed" /\ hpc'[c] # "embed")
              => /\ hpc'[c] = "write"
                 /\ sock'[c] = "open"
                 /\ NamedModel(request_msg[c][1]) \notin DOMAIN models
                      => c \in WritingError'
         /\ (c \in WritingError /\ Len(answered'[c]) = Len(answered[c]) + 1)
              => (hpc'[c] = "read" /\ sock'[c] = "open")]_vars

\* after an error message for a request the handler reads again
C7_Witness ==
    \E c \in Conns :
      /\ hpc[c] = "read"
      /\ sock[c] = "open"
      /\ Len(answered[c]) = 1
      /\ answered[c][1].kind = "error"

\* ----------------------------------------------------------------- registry

\* C8, as stated: in every reachable state the names with a model handle are
\* the names with a ModelInfo
C8_SameNames == DOMAIN models = DOMAIN model_infos

\* the same at rest, when every call has returned
C8_SameNamesAtRest ==
    (\A p \in Procs : rpc[p] = "idle") => DOMAIN models = DOMAIN model_infos

\* an observer found a name absent from one map and then present in the other
BadPair(s) == s.second # "" /\ s.r1 = "absent" /\ s.r2 # "absent"

\* C9: with unload_model and shutdown_all as the only writers, no observer
\* finds a name's handle absent and then its ModelInfo present, nor its
\* ModelInfo absent and then its handle present
C9_UnloadAtomicForLookups == \A o \in Observers : ~ BadPair(seen[o])

\* an observer read the ModelInfo of a name and then found its handle absent,
\* an unload_model of that name having returned Ok
C9_Witness ==
    \E o \in Observers, p \in Procs :
      /\ seen[o].first = "get_model_info"
      /\ seen[o].r1 = "present"
      /\ seen[o].second \in OfModels
      /\ seen[o].r2 = "absent"
      /\ rop[p] = "unload_model"
      /\ rname[p] = seen[o].name
      /\ rres[p] = "Ok"

\* C10: every handle in the registry has its engine, and every handle a
\* get_model returned is ready
C10_PublishedIsReady ==
    /\ \A n \in DOMAIN models : models[n].engine
    /\ \A o \in Observers : seen[o].r1 # "not ready" /\ seen[o].r2 # "not ready"

\* a get_model returned the handle of a name whose load by another caller
\* failed in initialize
C10_Witness ==
    \E o \in Observers, p \in Procs :
      /\ "ready" \in {seen[o].r1, seen[o].r2}
      /\ rop[p] = "load_model"
      /\ rname[p] = seen[o].name
      /\ rres[p] = "Err"

\* C11: a load_model that fails has taken two steps, create_model and the
\* initialize that returned the error, and neither changed the model map or
\* the ModelInfo map; a load_model that got past initialize returns Ok
C11_FailedLoadChangesNothing ==
    [][\A p \in Procs :
         /\ (rpc[p] = "idle" /\ rpc'[p] = "initialize")
              => (models' = models /\ model_infos' = model_infos)
         /\ (rpc[p] = "initialize" /\ rpc'[p] = "idle")
              => /\ rres'[p] = "Err"
                 /\ models' = models
                 /\ model_infos' = model_infos
         /\ (rpc[p] \in {"insert_info", "insert_model"} /\ rpc'[p] = "idle")
              => rres'[p] = "Ok"]_vars

\* a load_model has failed on a registry that holds another model, and the
\* failing name is in neither map
C11_Witness ==
    \E p \in Procs :
      /\ rpc[p] = "idle"
      /\ rop[p] = "load_model"
      /\ rres[p] = "Err"
      /\ rname[p] \notin DOMAIN models \cup DOMAIN model_infos
      /\ DOMAIN models # {}

\* C12: with no other call on the same name, once load_model(d) has returned
\* Ok the three lookups of d.name find it, and once the unload_model(d.name)
\* that follows has returned Ok the three lookups find nothing
C12_LoadThenUnload ==
    \A p \in Procs :
      (rpc[p] = "idle" /\ rres[p] = "Ok") =>
        /\ rop[p] = "load_model" =>
             /\ get_model(rname[p]) # None
             /\ is_model_loaded(rname[p])
             /\ get_model_info(rname[p]) # None
        /\ rop[p] = "unload_model" =>
             /\ get_model(rname[p]) = None
             /\ ~ is_model_loaded(rname[p])
             /\ get_model_info(rname[p]) = None

\* one caller has unloaded its name after loading it, the other caller's name
\* is loaded, and an observer has looked the unloaded name up in both maps
C12_Witness ==
    \E p, q \in Procs, o \in Observers :
      /\ rpc[p] = "idle" /\ rop[p] = "unload_model" /\ rres[p] = "Ok"
      /\ rpc[q] = "idle" /\ rop[q] = "load_model" /\ rres[q] = "Ok"
      /\ seen[o].name = rname[p]
      /\ seen[o].second # ""
      /\ seen[o].r1 = "absent"
      /\ seen[o].r2 = "absent"

\* ------------------------------------------------------------ embedding tasks

\* C13: a task holds no lock of the registry while it waits for an engine or
\* runs an inference (the locks are held by the registry's writers alone), and
\* whenever no writer holds models, every lookup of an idle observer can
\* complete, whatever the inferences are doing
C13_NoRegistryLockDuringInference ==
    /\ \A w \in Workers : wpc[w] \in {"embed", "run"} => wguard[w] = {}
    /\ modelsW \notin Workers
    /\ \A o \in Observers, kind \in LookupKinds, name \in Names :
         (rpc[o] = "idle" /\ modelsW = "free") => ENABLED Lookup1(o, kind, name)

\* one inference runs on a model, another task waits for the engine of that
\* model, and an observer has meanwhile got the handle and is at its next lookup
C13_Witness ==
    \E w1, w2 \in Workers, o \in Observers :
      /\ wpc[w1] = "run"
      /\ wpc[w2] = "embed"
      /\ wmodel[w1][1].name = wmodel[w2][1].name
      /\ rpc[o] = "second"
      /\ seen[o].name = wmodel[w1][1].name
      /\ seen[o].first = "get_model"
      /\ seen[o].r1 = "ready"

\* the tasks that run an inference on model n
Running(n) == { w \in Workers : wpc[w] = "run" /\ wmodel[w][1].name = n }

\* C14: at most one task runs an inference on a model at any time, that task
\* holding the engine's lock; and a task that called the model's embed_text
\* returns from it eventually
C14_OneInferencePerModel ==
    /\ [](\A n \in Names :
            /\ Cardinality(Running(n)) <= 1
            /\ Running(n) # {} => engineW[n] \in Running(n))
    /\ \A w \in Workers : (wpc[w] = "embed") ~> (wpc[w] = "idle")

\* two requests to the same model: one runs, the other waits for the engine
C14_Witness ==
    \E w1, w2 \in Workers :
      /\ wpc[w1] = "run"
      /\ wpc[w2] = "embed"
      /\ wmodel[w1][1].name = wmodel[w2][1].name

\* unload_model or shutdown_all has removed n and reported success
Released(n) == n \notin DOMAIN models /\ n \notin DOMAIN model_infos

\* C15, as stated: once a model is removed and the removal has reported
\* success, no task waits for its engine or runs an inference on it, and no
\* call has returned Ok from a model that was removed by then
C15_UnloadReleasesEngine ==
    \A w \in Workers :
      /\ wmodel[w] # None => ~ Released(wmodel[w][1].name)
      /\ wres[w].ok => ~ wres[w].stale

\* C16: a call whose name is not in the registry returns ModelNotFound with
\* that name, the configured default model for embed_text, without touching
\* an engine or the registry
C16_UnresolvedIsModelNotFound ==
    [][\A w \in Workers :
         (/\ wpc[w] = "idle"
          /\ << wreq[w], wres[w], wpc[w] >>' # << wreq[w], wres[w], wpc[w] >>
          /\ ~ is_model_loaded(resolve_name(wreq'[w])))
           => /\ ~ wres'[w].ok
              /\ wres'[w].error = "ModelNotFound"
              /\ wres'[w].model = resolve_name(wreq'[w])
              /\ wreq'[w].model = None => wres'[w].model = config.default
              /\ wpc'[w] = "idle"
              /\ wmodel'[w] = None
              /\ engineW' = engineW
              /\ models' = models
              /\ model_infos' = model_infos]_vars

\* embed_text has failed for the unloaded default model, and
\* embed_text_with_model for another unloaded name
C16_Witness ==
    \E w1, w2 \in Workers :
      /\ wreq[w1].model = None
      /\ wres[w1].error = "ModelNotFound"
      /\ wres[w1].model = DefaultModel
      /\ wreq[w2].model # None
      /\ wres[w2].error = "ModelNotFound"
      /\ wres[w2].model = wreq[w2].model[1]
      /\ wres[w2].model # DefaultModel

\* ------------------------------------------------- initialize, reload_config

\* shutdown_all, called by reload_config, has returned
ShutdownReturned ==
    \/ rop[Manager] = "shutdown_all" /\ rpc[Manager] = "idle" /\ rres[Manager] = "Ok"
    \/ mpc = "load_from_config"

\* C17, as stated: whenever reload_config holds a new configuration that
\* validate has accepted, the shutdown of the loaded models is complete
C17_ShutdownBeforeValidate ==
    (mcall = "reload_config" /\ mpc # "idle") => ShutdownReturned

\* C17, amended: reload_config validates first and the shutdown starts only
\* with an accepted configuration, the old one still in place; a rejected or
\* unreadable configuration leaves the models and the configuration alone;
\* the configuration is replaced only once shutdown_all has returned with both
\* maps empty; and a model is loaded only after that replacement
C17_ValidateShutdownLoad ==
    [][/\ (rpc[Manager] = "idle" /\ rpc'[Manager] = "clear_infos")
            => /\ mnew # None
               /\ validate(mnew[1]) = "Ok"
               /\ config' = config
       /\ (mpc = "idle" /\ mres' \in {"IoError", "ConfigError"})
            => /\ models' = models
               /\ model_infos' = model_infos
               /\ config' = config
               /\ mpc' = "idle"
       /\ (mcall = "reload_config" /\ mpc = "shutdown_all" /\ mpc' # mpc)
            => /\ rop[Manager] = "shutdown_all" /\ rres[Manager] = "Ok"
               /\ models = EmptyMap
               /\ model_infos = EmptyMap
               /\ modelsW = "free"
               /\ config' = mnew[1]
               /\ mpc' = "load_from_config"
       /\ (mcall = "reload_config" /\ rpc[Manager] = "idle"
             /\ rpc'[Manager] = "initialize")
            => /\ mpc = "load_from_config"
               /\ config = mnew[1]
               /\ DOMAIN models = mloaded]_vars

\* a reload is past validate, shutdown_all and the replacement of the
\* configuration, and has loaded a model of the new configuration
C17_Witness ==
    /\ mcall = "reload_config"
    /\ mpc = "load_from_config"
    /\ mloaded # {}
    /\ config = mnew[1]

\* C18: when reload_config has failed in a load_model, the manager's
\* configuration is the new one and the registry holds exactly the models of
\* the new configuration that were loaded in this call before the failure;
\* none of the models loaded before is back
C18_FailedReloadNotRestored ==
    (mcall = "reload_config" /\ mpc = "idle" /\ mres = "ModelLoadFailed") =>
      /\ config = mnew[1]
      /\ DOMAIN models = mloaded
      /\ DOMAIN model_infos = mloaded
      /\ mloaded \subseteq config.enabled
      /\ mfailed # {}
      /\ mfailed \cap mloaded = {}

\* a reload has failed in its second load_model: one model of the new
\* configuration is loaded, one is not
C18_Witness ==
    /\ mcall = "reload_config"
    /\ mpc = "idle"
    /\ mres = "ModelLoadFailed"
    /\ mloaded # {}
    /\ DOMAIN models = mloaded

\* C19, as stated: when initialize or reload_config has returned from
\* loading, every enabled model of the configuration whose own load did not
\* fail is loaded
C19_FailureAbortsOnlyThatModel ==
    (mpc = "idle" /\ mres \in {"Ok", "ModelLoadFailed"}) =>
      \A n \in config.enabled \ mfailed : is_model_loaded(n)

\* ---------------------------------------------------------------- the codec

\* the payload is shorter than 2^32 bytes
FitsU32(m) == RunsLen(m.payload)[1] < Limb

\* C20, as stated: for every message, read_from_stream on the bytes of
\* write_to_stream returns the message, equal in its four fields, and leaves
\* unread exactly what followed it
C20_RoundTrip ==
    cpc = "read" =>
      /\ cout[1].ok
      /\ cout[1].msg = cmsg
      /\ cout[1].rest = ctrail

\* the round trip of the messages whose payload length fits the length field
RoundTripBelowU32 ==
    (cpc = "read" /\ FitsU32(cmsg[1])) =>
      /\ cout[1].ok
      /\ cout[1].msg = cmsg
      /\ cout[1].rest = ctrail

\* the length field of a frame: the four bytes after magic, version and type
DeclaredLength(wire) ==
    from_le_bytes(Expand(read_exact(read_exact(wire, SzOf(6)).rest, SzOf(4)).data))

\* the bytes of a frame before its payload
HeaderLength(m) ==
    4 + 1 + 1 + 4 + 16 + (IF m.target_id # None THEN 1 + 16 ELSE 1) + 16

\* the bytes write_to_stream has put on the stream after the header and before
\* what follows the frame; the header and what follows are on the stream
\* byte by byte, one run each
SentAfterHeader ==
    RunsLen(SubSeq(cwire, HeaderLength(cmsg[1]) + 1, Len(cwire) - Len(ctrail)))

\* C21, as stated: in every frame written by write_to_stream the declared
\* length, read as an unsigned 32-bit little-endian number, is the number of
\* payload bytes sent after the header, whatever the payload's length
C21_DeclaredLengthIsSentLength ==
    cpc \in {"written", "read"} => DeclaredLength(cwire) = SentAfterHeader

\* the same for the payloads shorter than 2^32 bytes
DeclaredLengthBelowU32 ==
    (cpc \in {"written", "read"} /\ FitsU32(cmsg[1]))
      => /\ DeclaredLength(cwire) = SentAfterHeader
         /\ SentAfterHeader = RunsLen(cmsg[1].payload)

\* ------------------------------------------------- streams sent by a peer
\* read_from_stream meets whatever bytes the peer has sent: any four bytes
\* where the magic belongs, any byte where the version belongs, and after them
\* the rest of a frame, a part of it, or nothing.

Magics == { MAGIC_BYTES, << 0, 0, 0, 0 >>, << 79, 86, 78, 0 >>, << 0, 86, 78, 84 >> }

Versions == { 0, VERSION, 2, 255 }

\* a frame from its sixth byte on: type, length, ids and payload
Body(m) == SubSeq(write_to_stream(m), 6, Len(write_to_stream(m)))

Bodies ==
    { Body(m) : m \in [sender_id : Uuids, target_id : {None, Some("u1")},
                       message_id : {"u2"},
                       payload : { << >>, << [b |-> 7, n |-> SzOf(1)] >> }] }

\* a body whole, cut after three bytes, or missing
Cuts(body) == { body, SubSeq(body, 1, 3), << >> }

PeerStreams ==
    UNION { { Lit(magic) \o Lit(<< version >>) \o rest : rest \in Cuts(body) } :
              magic \in Magics, version \in Versions, body \in Bodies }
    \cup { SubSeq(Lit(magic), 1, k) : magic \in Magics, k \in 0 .. 4 }

\* the peer's bytes are on the stream
PeerSends(st) ==
    /\ cpc = "idle"
    /\ cwire' = st
    /\ cpc' = "written"
    /\ UNCHANGED << cmsg, ctrail, cout >>
    /\ UNCHANGED << serverVars, registryVars, inferVars, reloadVars, laterVars >>

NextDecode ==
    \/ \E st \in PeerStreams : PeerSends(st)
    \/ CodecRead

SpecDecode == InitRegistry /\ [][NextDecode]_vars

\* the first four bytes of the stream and the byte after them, if it has them
FirstFour == read_exact(cwire, SzOf(4))

FifthByte == read_exact(FirstFour.rest, SzOf(1))

BadMagic == FirstFour.ok /\ Expand(FirstFour.data) # MAGIC_BYTES

BadVersion ==
    /\ FirstFour.ok
    /\ Expand(FirstFour.data) = MAGIC_BYTES
    /\ FifthByte.ok
    /\ Expand(FifthByte.data) # << VERSION >>

\* C22: read_from_stream on a stream whose first four bytes are not the magic
\* returns the invalid-magic error, whatever the version byte is; on a stream
\* with the magic and a version byte other than 1 it returns the
\* unsupported-version error, which differs from the invalid-magic error; in
\* both cases no message is returned
C22_BadMagicThenBadVersion ==
    cpc = "read" =>
      /\ BadMagic =>
           /\ ~ cout[1].ok
           /\ cout[1].what = "Invalid magic bytes"
           /\ cout[1].msg = None
      /\ BadVersion =>
           /\ ~ cout[1].ok
           /\ cout[1].what = "Unsupported version"
           /\ cout[1].msg = None
      /\ (BadMagic \/ BadVersion) =>
           /\ cout[1].kind = "InvalidData"
           /\ \A other \in PeerStreams :
                LET r == read_from_bytes(other)
                IN  (r.what # "" /\ r.what # cout[1].what)
                      => [kind |-> r.kind, what |-> r.what]
                           # [kind |-> cout[1].kind, what |-> cout[1].what]

\* a stream with a wrong magic and a wrong version byte has been read, and the
\* error is the one of the magic
C22_Witness ==
    /\ cpc = "read"
    /\ BadMagic
    /\ FifthByte.ok
    /\ Expand(FifthByte.data) # << VERSION >>
    /\ cout[1].what = "Invalid magic bytes"

\* ------------------------------------------------- the end of the stream

\* the step in which the handler of c meets the end of the stream where a
\* frame would begin
ReadsEof(c) ==
    /\ hpc[c] = "read"
    /\ hpc'[c] # "read"
    /\ rx'[c] = "UnexpectedEof"

\* C23: when read_from_stream meets the end of the stream at a message
\* boundary, handle_connection returns Ok, no message is written to the
\* client, and the handler's permit is given back
C23_EofIsDisconnect ==
    [][\A c \in Conns :
         ReadsEof(c) =>
           /\ hend'[c] = "Ok"
           /\ hpc'[c] = "none"
           /\ response_msg'[c] = None
           /\ sock'[c] = "closed"
           /\ permits' = permits + 1]_vars

\* a handler has ended on the end of the stream, and every permit is free
C23_Witness ==
    \E c \in Conns :
      /\ hpc[c] = "none"
      /\ rx[c] = "UnexpectedEof"
      /\ hend[c] = "Ok"
      /\ sock[c] = "closed"
      /\ permits = MaxConnections

\* ------------------------------------------------------ the inference engine
\* OnnxEmbeddingEngine::embed_texts and the entry points of OnnxEmbeddingModel
\* that call it. The tokenizer and the runtime session are libraries: what they
\* give for a text is a table here. The f32 values are taken as exact
\* fractions << numerator, denominator >>, and the tables give outputs whose
\* norms are whole.

MaxTexts == 2

Texts == {"a", "b", "pad", "zero", "flat", "tokfail", "runfail"}

TextLists == UNION { [1 .. n -> Texts] : n \in 0 .. MaxTexts }

\* the sizes a model declares and a runtime session has
Dimensions == {2, 3}

Ok(v) == [ok |-> TRUE, value |-> v, error |-> "", message |-> ""]

Err(e, m) == [ok |-> FALSE, value |-> << >>, error |-> e, message |-> m]

Abs(n) == IF n < 0 THEN 0 - n ELSE n

RECURSIVE GCD(_, _)
GCD(a, b) == IF b = 0 THEN a ELSE GCD(b, a % b)

\* the fraction n / d in lowest terms, d > 0
Frac(n, d) ==
    IF n = 0 THEN << 0, 1 >>
    ELSE LET g == GCD(Abs(n), d) IN << n \div g, d \div g >>

FracAdd(x, y) == Frac(x[1] * y[2] + y[1] * x[2], x[2] * y[2])

FracMul(x, y) == Frac(x[1] * y[1], x[2] * y[2])

\* x / y for y # 0
FracDiv(x, y) ==
    IF y[1] > 0 THEN Frac(x[1] * y[2], x[2] * y[1])
    ELSE Frac(0 - x[1] * y[2], x[2] * Abs(y[1]))

\* the square root of a fraction whose two terms are squares
FracSqrt(x) ==
    << CHOOSE r \in 0 .. x[1] : r * r = x[1], CHOOSE r \in 1 .. x[2] : r * r = x[2] >>

RECURSIVE FracSum(_)
FracSum(xs) == IF xs = << >> THEN << 0, 1 >> ELSE FracAdd(Head(xs), FracSum(Tail(xs)))

\* self.tokenizer.encode(text, true): the attention mask, or an error
encode(text) ==
    IF text = "tokfail" THEN [ok |-> FALSE, attention_mask |-> << >>]
    ELSE IF text = "b" THEN [ok |-> TRUE, attention_mask |-> << 1, 0 >>]
    ELSE IF text = "pad" THEN [ok |-> TRUE, attention_mask |-> << 0, 0 >>]
    ELSE [ok |-> TRUE, attention_mask |-> << 1, 1 >>]

\* the token vectors the model computes for a text, three values each
Rows(text) ==
    IF text = "b" THEN << << -4, 3, 0 >>, << 9, 9, 9 >> >>
    ELSE IF text = "zero" THEN << << 3, 4, 12 >>, << -3, -4, -12 >> >>
    ELSE << << 3, 4, 12 >>, << 3, 4, 12 >> >>

\* self.session.run and try_extract_tensor of "last_hidden_state": the shape
\* and the data of the output tensor of a session with this hidden size, or
\* an error
session_run(text, hidden) ==
    IF text = "runfail" THEN [ok |-> FALSE, shape |-> << >>, data |-> << >>]
    ELSE IF text = "flat"
      THEN [ok |-> TRUE, shape |-> << 2, hidden >>,
            data |-> [s \in 1 .. 2 |-> [h \in 1 .. hidden |-> << Rows(text)[s][h], 1 >>]]]
    ELSE [ok |-> TRUE, shape |-> << 1, 2, hidden >>,
          data |-> [s \in 1 .. 2 |-> [h \in 1 .. hidden |-> << Rows(text)[s][h], 1 >>]]]

\* the positions of the mask that count
Valid(attention_mask) == { s \in 1 .. Len(attention_mask) : attention_mask[s] = 1 }

RECURSIVE SumOver(_, _, _)
\* the sum of data[s][h] over the positions s of a set
SumOver(data, positions, h) ==
    IF positions = {} THEN << 0, 1 >>
    ELSE LET s == CHOOSE x \in positions : TRUE
         IN  FracAdd(data[s][h], SumOver(data, positions \ {s}, h))

\* OnnxEmbeddingEngine::mean_pooling
mean_pooling(output_tensor, attention_mask) ==
    IF Len(output_tensor.shape) # 3
      THEN Err("EmbeddingFailed", "Expected 3D output tensor")
    ELSE LET seq_len == output_tensor.shape[2]
             hidden_size == output_tensor.shape[3]
             valid_tokens == Cardinality(Valid(attention_mask))
         IN  IF Len(attention_mask) # seq_len
               THEN Err("EmbeddingFailed", "Attention mask length doesn't match sequence length")
             ELSE IF valid_tokens = 0
               THEN Err("EmbeddingFailed", "No valid tokens found in attention mask")
             ELSE Ok([h \in 1 .. hidden_size |->
                        FracDiv(SumOver(output_tensor.data, Valid(attention_mask), h),
                                << valid_tokens, 1 >>)])

\* the norm of a vector
Norm(embedding) ==
    FracSqrt(FracSum([h \in 1 .. Len(embedding) |-> FracMul(embedding[h], embedding[h])]))

\* mutant of normalize_embedding: the norm is not compared with zero, and the
\* division of zero by zero gives NaN
normalize_embedding_unchecked(embedding) ==
    IF Norm(embedding) = << 0, 1 >>
      THEN Ok([h \in 1 .. Len(embedding) |-> "NaN"])
      ELSE Ok([h \in 1 .. Len(embedding) |-> FracDiv(embedding[h], Norm(embedding))])

\* OnnxEmbeddingEngine::normalize_embedding
normalize_embedding(embedding) ==
    IF Norm(embedding) = << 0, 1 >>
      THEN Err("EmbeddingFailed", "Cannot normalize zero vector")
      ELSE Ok([h \in 1 .. Len(embedding) |-> FracDiv(embedding[h], Norm(embedding))])

\* embed_texts: one turn of its loop after the tokenizer has answered
embed_one(text, hidden) ==
    LET outputs == session_run(text, hidden)
        embedding == mean_pooling(outputs, encode(text).attention_mask)
    IN  IF ~ outputs.ok THEN Err("EmbeddingFailed", "ONNX inference failed")
        ELSE IF ~ embedding.ok THEN embedding
        ELSE normalize_embedding(embedding.value)

\* mutant of push: the embedding is put in front of the earlier ones
push_front(vec, e) == << e >> \o vec

\* embeddings.push(normalized_embedding)
push(vec, e) == Append(vec, e)

\* a caller calls embed_texts, or embed_text or embed_batch of a model that
\* declares the dimension dim and whose session has the hidden size hidden
EngineCall(call, texts, dim, hidden) ==
    /\ epc = "idle"
    /\ call = "embed_text" => Len(texts) = 1
    /\ ecall' = call
    /\ etexts' = texts
    /\ edim' = dim
    /\ ehidden' = hidden
    /\ epc' = "enter"
    /\ UNCHANGED << embeddings, etok, eruns, eres, eout >>
    /\ UNCHANGED << serverVars, registryVars, inferVars, reloadVars, codecVars,
                    buildVars, httpVars, lockVars, surfaceVars >>

\* mutant of EmbedTextsEnter: an empty list goes into the loop
EmbedTextsEnterUnchecked ==
    /\ epc = "enter"
    /\ epc' = "loop"
    /\ UNCHANGED << ecall, etexts, edim, ehidden, embeddings, etok, eruns, eres, eout >>
    /\ UNCHANGED << serverVars, registryVars, inferVars, reloadVars, codecVars,
                    buildVars, httpVars, lockVars, surfaceVars >>

\* embed_texts: an empty list is refused before anything else is done
EmbedTextsEnter ==
    /\ epc = "enter"
    /\ IF etexts = << >>
         THEN /\ eres' = Some(Err("InvalidInput", "Cannot embed empty text list"))
              /\ epc' = "return"
         ELSE /\ epc' = "loop"
              /\ UNCHANGED eres
    /\ UNCHANGED << ecall, etexts, edim, ehidden, embeddings, etok, eruns, eout >>
    /\ UNCHANGED << serverVars, registryVars, inferVars, reloadVars, codecVars,
                    buildVars, httpVars, lockVars, surfaceVars >>

\* embed_texts: one turn of the loop over &texts; `?` returns the first error
EmbedTextsLoop ==
    /\ epc = "loop"
    /\ Len(embeddings) < Len(etexts)
    /\ LET text == etexts[Len(embeddings) + 1]
           e == embed_one(text, ehidden)
       IN  /\ etok' = Append(etok, text)
           /\ IF ~ encode(text).ok
                THEN /\ eres' = Some(Err("EmbeddingFailed", "Tokenization failed"))
                     /\ epc' = "return"
                     /\ UNCHANGED << embeddings, eruns >>
                ELSE /\ eruns' = Append(eruns, text)
                     /\ IF ~ e.ok
                          THEN /\ eres' = Some(e)
                               /\ epc' = "return"
                               /\ UNCHANGED embeddings
                          ELSE /\ embeddings' = push(embeddings, e.value)
                               /\ UNCHANGED << epc, eres >>
    /\ UNCHANGED << ecall, etexts, edim, ehidden, eout >>
    /\ UNCHANGED << serverVars, registryVars, inferVars, reloadVars, codecVars,
                    buildVars, httpVars, lockVars, surfaceVars >>

\* embed_texts: the loop is over and Ok(embeddings) is returned
EmbedTextsDone ==
    /\ epc = "loop"
    /\ Len(embeddings) = Len(etexts)
    /\ eres' = Some(Ok(embeddings))
    /\ epc' = "return"
    /\ UNCHANGED << ecall, etexts, edim, ehidden, embeddings, etok, eruns, eout >>
    /\ UNCHANGED << serverVars, registryVars, inferVars, reloadVars, codecVars,
                    buildVars, httpVars, lockVars, surfaceVars >>

\* OnnxEmbeddingModel::embed_text and embed_batch on what embed_texts
\* returned: an error becomes InferenceError; embed_text takes the first
\* embedding, embed_batch all of them
model_result(call, res) ==
    IF call = "embed_texts" THEN res
    ELSE IF ~ res.ok THEN Err("InferenceError", res.message)
    ELSE IF call = "embed_batch" THEN Ok(res.value)
    ELSE IF res.value # << >> THEN Ok(res.value[1])
    ELSE Err("InferenceError", "No embedding returned")

\* the entry point returns to its caller
EngineReturn ==
    /\ epc = "return"
    /\ eout' = Some(model_result(ecall, eres[1]))
    /\ epc' = "done"
    /\ UNCHANGED << ecall, etexts, edim, ehidden, embeddings, etok, eruns, eres >>
    /\ UNCHANGED << serverVars, registryVars, inferVars, reloadVars, codecVars,
                    buildVars, httpVars, lockVars, surfaceVars >>

NextEngine ==
    \/ \E call \in {"embed_texts", "embed_text", "embed_batch"}, texts \in TextLists,
          dim \in Dimensions, hidden \in Dimensions :
         EngineCall(call, texts, dim, hidden)
    \/ EmbedTextsEnter
    \/ EmbedTextsLoop
    \/ EmbedTextsDone
    \/ EngineReturn

SpecEngine == InitLoaded /\ [][NextEngine]_vars

\* the embedding embed_texts computes from one text
EmbeddingOf(text) == embed_one(text, ehidden).value

\* C24: when embed_texts, or embed_batch of the model, returns Ok, the list
\* has the length of the input and its i-th embedding is the one computed
\* from the i-th text; the texts went to the tokenizer and to the session one
\* by one in the order of the input
C24_BatchKeepsOrder ==
    (epc = "done" /\ ecall \in {"embed_texts", "embed_batch"} /\ eout[1].ok) =>
      /\ Len(eout[1].value) = Len(etexts)
      /\ \A i \in 1 .. Len(etexts) : eout[1].value[i] = EmbeddingOf(etexts[i])
      /\ etok = etexts
      /\ eruns = etexts

\* embed_batch has returned the embeddings of two texts that differ
C24_Witness ==
    /\ epc = "done"
    /\ ecall = "embed_batch"
    /\ eout[1].ok
    /\ Len(etexts) = 2
    /\ EmbeddingOf(etexts[1]) # EmbeddingOf(etexts[2])
    /\ eout[1].value = << EmbeddingOf(etexts[1]), EmbeddingOf(etexts[2]) >>

\* C25: embed_texts called with an empty list returns InvalidInput, and
\* neither the tokenizer nor the session has been given anything; embed_texts
\* never returns Ok with an empty list
C25_EmptyListIsInvalidInput ==
    /\ (epc \in {"return", "done"} /\ etexts = << >>) =>
         /\ ~ eres[1].ok
         /\ eres[1].error = "InvalidInput"
         /\ etok = << >>
         /\ eruns = << >>
    /\ (eres # None /\ eres[1].ok) => eres[1].value # << >>

\* embed_texts has returned from a call with an empty list
C25_Witness ==
    /\ epc = "done"
    /\ ecall = "embed_texts"
    /\ etexts = << >>
    /\ eout[1].error = "InvalidInput"

\* the text whose embedding the loop has just failed on
FailedOn == etexts[Len(embeddings) + 1]

\* C26: a text whose attention mask has no position equal to 1 makes the call
\* fail, and so does a text whose pooled vector has norm zero; the caller gets
\* an error and no vector
C26_ZeroMaskAndZeroNormFail ==
    /\ epc = "done" =>
         \A i \in 1 .. Len(eruns) :
           LET text == eruns[i]
               pooled == mean_pooling(session_run(text, ehidden), encode(text).attention_mask)
           IN  (\/ Valid(encode(text).attention_mask) = {}
                \/ (pooled.ok /\ Norm(pooled.value) = << 0, 1 >>))
                 => /\ ~ eout[1].ok
                    /\ eout[1].value = << >>
                    /\ i = Len(eruns)
    /\ \A text \in Texts :
         (encode(text).ok /\ Valid(encode(text).attention_mask) = {})
           => ~ mean_pooling(session_run(text, ehidden), encode(text).attention_mask).ok

\* a call has failed on a text whose pooled vector is zero, after it had
\* computed the embedding of another text
C26_Witness ==
    /\ epc = "done"
    /\ ~ eout[1].ok
    /\ Len(etexts) = 2
    /\ Len(embeddings) = 1
    /\ FailedOn = "zero"
    /\ eout[1].value = << >>

\* the embeddings the caller has been given
Returned ==
    IF ecall = "embed_text" THEN { eout[1].value }
    ELSE { eout[1].value[i] : i \in 1 .. Len(eout[1].value) }

\* C27, as stated: every embedding that embed_text or embed_batch of a model
\* returns has the length the model declares as its dimension, whatever the
\* hidden size of the session's output is
C27_LengthIsDeclaredDimension ==
    (epc = "done" /\ ecall \in {"embed_text", "embed_batch"} /\ eout[1].ok) =>
      \A e \in Returned : Len(e) = edim

\* what the code gives: the length is the hidden size of the output tensor
LengthIsHiddenSize ==
    (epc = "done" /\ eout[1].ok) => \A e \in Returned : Len(e) = ehidden

\* --------------------------------------------------- building the manager

\* from_config(config) or from_config_file(path) is called; readable says
\* whether from_file could read and parse the file
BuildCall(call, c, readable) ==
    /\ bpc = "idle"
    /\ call = "from_config" => readable
    /\ bcall' = call
    /\ bcfg' = IF readable THEN Some(c) ELSE None
    /\ bpc' = "validate"
    /\ UNCHANGED bres
    /\ UNCHANGED << serverVars, registryVars, inferVars, reloadVars, codecVars,
                    engineVars, httpVars, lockVars, surfaceVars >>

\* from_config / from_config_file: the error of from_file or of validate is
\* returned by `?`, else the manager with this configuration and a new, empty
\* registry
BuildReturn ==
    /\ bpc = "validate"
    /\ bres' = IF bcfg = None THEN Some(Err("IoError", ""))
               ELSE IF validate(bcfg[1]) # "Ok"
                 THEN Some(Err("ConfigError", validate(bcfg[1])))
               ELSE Some(Ok([config |-> bcfg[1], models |-> EmptyMap,
                             model_infos |-> EmptyMap]))
    /\ bpc' = "built"
    /\ UNCHANGED << bcall, bcfg >>
    /\ UNCHANGED << serverVars, registryVars, inferVars, reloadVars, codecVars,
                    engineVars, httpVars, lockVars, surfaceVars >>

NextBuild ==
    \/ \E call \in {"from_config", "from_config_file"}, c \in AllConfigs,
          readable \in BOOLEAN : BuildCall(call, c, readable)
    \/ BuildReturn

SpecBuild == InitRegistry /\ [][NextBuild]_vars

\* the entries of a configuration whose name is its default_model
NamedDefault(c) == { k \in c.models : c.name[k] = c.default }

C29_DefaultByKeyIsValid ==
    (/\ bpc = "built"
     /\ bcall = "from_config"
     /\ bcfg[1].default \in bcfg[1].enabled
     /\ bcfg[1].groups \subseteq bcfg[1].models)
      => /\ validate(bcfg[1]) = "Ok"
         /\ bres[1].ok

\* what the code gives: the same holds when that entry's name is its key
DefaultByKeyAndNameIsValid ==
    (/\ bpc = "built"
     /\ bcall = "from_config"
     /\ bcfg[1].default \in bcfg[1].enabled
     /\ bcfg[1].name[bcfg[1].default] = bcfg[1].default
     /\ \A k \in bcfg[1].models \ bcfg[1].enabled : bcfg[1].name[k] # bcfg[1].default
     /\ bcfg[1].groups \subseteq bcfg[1].models)
      => /\ validate(bcfg[1]) = "Ok"
         /\ bres[1].ok

\* ------------------------------------------------------- POST /embed
\* handle_embed of the HTTP gateway. A text is given by its length in bytes.

MAX_TEXT_LENGTH == 8192

TextLengths == {0, 1, 10, 8191, MAX_TEXT_LENGTH, 8193, 9000}

\* the bodies of a POST /embed: one that cannot be read, one that is no JSON
\* of an HttpEmbedRequest (the text field missing, say), and requests
HttpBodies ==
    { [kind |-> k, text_len |-> 0, chunk_size |-> 100, model |-> None] :
        k \in {"unreadable", "invalid"} }
    \cup [kind : {"request"}, text_len : TextLengths, chunk_size : {100, 5},
          model : {None} \cup { Some(n) : n \in Names }]

\* error_response(status, error)
error_response(status, code, error) ==
    [status |-> status, code |-> code, error |-> error, embedding |-> FALSE]

\* mutant of HttpEmbedRequest_validate: the length is not limited
HttpEmbedRequest_validate_unlimited(request) ==
    IF request.text_len = 0 THEN "Text field cannot be empty" ELSE "Ok"

\* HttpEmbedRequest::validate
HttpEmbedRequest_validate(request) ==
    IF request.text_len = 0 THEN "Text field cannot be empty"
    ELSE IF request.text_len > MAX_TEXT_LENGTH
      THEN "Text exceeds maximum length of 8192 characters"
    ELSE "Ok"

\* a POST /embed arrives
HttpPost(body) ==
    /\ xpc = "idle"
    /\ xreq' = Some(body)
    /\ xpc' = "received"
    /\ UNCHANGED << xresp, xcalls >>
    /\ UNCHANGED << serverVars, registryVars, inferVars, reloadVars, codecVars,
                    engineVars, buildVars, lockVars, surfaceVars >>

\* handle_embed: the body is read, parsed and validated; a request that
\* passes is given to the manager
HttpHandle ==
    /\ xpc = "received"
    /\ LET request == xreq[1]
       IN  IF request.kind = "unreadable"
             THEN /\ xresp' = Some(error_response(400, None, "Failed to read request body"))
                  /\ xpc' = "responded"
                  /\ UNCHANGED xcalls
           ELSE IF request.kind = "invalid"
             THEN /\ xresp' = Some(error_response(400, None, "Invalid JSON"))
                  /\ xpc' = "responded"
                  /\ UNCHANGED xcalls
           ELSE IF HttpEmbedRequest_validate(request) # "Ok"
             THEN /\ xresp' = Some(
                       IF request.text_len = 0
                         THEN error_response(400, Some("EMPTY_TEXT"),
                                             "Text field cannot be empty")
                       ELSE IF request.text_len > MAX_TEXT_LENGTH
                         THEN error_response(400, Some("TEXT_TOO_LONG"),
                                "Text exceeds maximum length of 8192 characters")
                       ELSE error_response(400, None, HttpEmbedRequest_validate(request)))
                  /\ xpc' = "responded"
                  /\ UNCHANGED xcalls
           ELSE /\ xcalls' = Append(xcalls,
                     IF request.model # None THEN "embed_text_with_model"
                     ELSE "embed_text")
                /\ xpc' = "embedding"
                /\ UNCHANGED xresp
    /\ UNCHANGED xreq
    /\ UNCHANGED << serverVars, registryVars, inferVars, reloadVars, codecVars,
                    engineVars, buildVars, lockVars, surfaceVars >>

\* handle_embed: the manager's call has returned; the embedding is sent with
\* 200, an error with 500
HttpEmbedReturn(infer) ==
    /\ xpc = "embedding"
    /\ xresp' = Some(
         IF manager_embed([text |-> "t", model |-> xreq[1].model], infer).ok
           THEN [status |-> 200, code |-> None, error |-> "", embedding |-> TRUE]
           ELSE error_response(500, Some("INTERNAL_ERROR"),
                  "Internal server error occurred during embedding generation"))
    /\ xpc' = "responded"
    /\ UNCHANGED << xreq, xcalls >>
    /\ UNCHANGED << serverVars, registryVars, inferVars, reloadVars, codecVars,
                    engineVars, buildVars, lockVars, surfaceVars >>

NextHttp ==
    \/ \E body \in HttpBodies : HttpPost(body)
    \/ HttpHandle
    \/ \E infer \in {"ok", "failed"} : HttpEmbedReturn(infer)

SpecHttp == InitLoaded /\ [][NextHttp]_vars

\* the request's text is empty, or longer than 8192 bytes
EmptyText == xreq[1].kind = "request" /\ xreq[1].text_len = 0

TextTooLong == xreq[1].kind = "request" /\ xreq[1].text_len > 8192

\* C30: POST /embed answers a request whose text is empty with 400 and the
\* code EMPTY_TEXT, and a request whose text is longer than 8192 bytes with
\* 400 and the code TEXT_TOO_LONG; for neither is the manager called
C30_EmptyAndTooLongRejected ==
    xpc \in {"embedding", "responded"} =>
      /\ EmptyText =>
           /\ xpc = "responded"
           /\ xresp[1].status = 400
           /\ xresp[1].code = Some("EMPTY_TEXT")
           /\ xcalls = << >>
      /\ TextTooLong =>
           /\ xpc = "responded"
           /\ xresp[1].status = 400
           /\ xresp[1].code = Some("TEXT_TOO_LONG")
           /\ xcalls = << >>

\* a request with a text of 8193 bytes has been answered
C30_Witness ==
    /\ xpc = "responded"
    /\ xreq[1].kind = "request"
    /\ xreq[1].text_len = 8193
    /\ xresp[1].code = Some("TEXT_TOO_LONG")
    /\ xcalls = << >>

\* the codes an error body may carry
StableCodes ==
    {"MISSING_REQUIRED_FIELDS", "EMPTY_TEXT", "TEXT_TOO_LONG", "MODEL_NOT_READY",
     "INTERNAL_ERROR"}

\* C31, as stated: every error response to POST /embed, whatever its cause,
\* carries one of the stable codes
C31_ErrorsCarryStableCode ==
    (xpc = "responded" /\ ~ xresp[1].embedding) =>
      \E code \in StableCodes : xresp[1].code = Some(code)

\* what the code gives: the errors of a request that was read and parsed
\* carry a stable code
ParsedErrorsCarryStableCode ==
    (xpc = "responded" /\ ~ xresp[1].embedding /\ xreq[1].kind = "request") =>
      \E code \in StableCodes : xresp[1].code = Some(code)


\* ------------------------------------------ when a connection is closed

\* the io::ErrorKind values with which read_from_stream fails: the end of the
\* stream, a header that does not decode, a read the socket refuses
ReadFailures == {"UnexpectedEof", "InvalidData", "ConnectionReset"}

\* the step in which the handler of c returns and its connection is dropped
Closes(c) == hpc[c] # "none" /\ hpc'[c] = "none"

SpecAccept ==
    /\ Spec
    /\ WF_vars(SleepDone)
    /\ \A c \in Conns : SF_vars(Admit(c))

\* C33: an error of accept does not end the accept loop: the loop leaves
\* accept only to sleep, the step changes no connection, handler or permit,
\* the sleep ends with the loop at accept again, and a connection that waits
\* while the loop sleeps is admitted afterwards unless the permits run out
C33_AcceptErrorKeepsServing ==
    /\ [][(accPc = "accept" /\ accPc' # "accept") =>
            /\ accPc' = "sleep"
            /\ UNCHANGED << permits, sock, hpc, request_msg, response_msg, nRead,
                            answered, rx, hend >>]_vars
    /\ (accPc = "sleep") ~> (accPc = "accept")
    /\ \A c \in Conns :
         (accPc = "sleep" /\ sock[c] = "backlog") ~> (sock[c] = "open" \/ permits = 0)

\* accept has failed while one handler runs and another connection waits
C33_Witness ==
    /\ accPc = "sleep"
    /\ permits > 0
    /\ \E c, d \in Conns :
         /\ sock[c] = "backlog"
         /\ hpc[d] \in {"read", "embed", "write"}


\* ------------------------------------------------ the registry's two locks
\* The registry calls again, at the grain of their awaits on the two RwLocks:
\* a task waits for a lock, holds its guard until the guard's scope ends, and
\* may wait for the second lock while it holds the first.

\* the calls that change the registry, and the lookups
Writers == {"load_model", "unload_model", "shutdown_all"}
Readers == {"get_model", "get_model_info"}

\* task t holds a guard of lock l
Holds(l, t) == l.writer = t \/ t \in l.readers

\* RwLock::write and RwLock::read return when the lock allows it
WriteFree(l) == l.writer = "" /\ l.readers = {}
ReadFree(l) == l.writer = ""

\* the guard of task t is dropped
Release(l, t) ==
    [writer |-> IF l.writer = t THEN "" ELSE l.writer, readers |-> l.readers \ {t}]

\* the call of task t returns
Returns(t) ==
    /\ lpc' = [lpc EXCEPT ![t] = "idle"]
    /\ lop' = [lop EXCEPT ![t] = ""]
    /\ lname' = [lname EXCEPT ![t] = ""]

\* a task calls the registry; the call runs up to its first await
RegistryCall(t, op, name) ==
    /\ lpc[t] = "idle"
    /\ lop' = [lop EXCEPT ![t] = op]
    /\ lname' = [lname EXCEPT ![t] = IF op = "shutdown_all" THEN "" ELSE name]
    /\ lpc' = [lpc EXCEPT ![t] =
         IF op = "load_model" THEN "initialize"
         ELSE IF op = "get_model_info" THEN "await_infos"
         ELSE "await_models"]
    /\ UNCHANGED << mlock, ilock, models, model_infos >>

\* self.models.write().await, and .read().await of the lookups
AwaitModels(t) ==
    /\ lpc[t] = "await_models"
    /\ IF lop[t] \in Writers
         THEN /\ WriteFree(mlock)
              /\ mlock' = [mlock EXCEPT !.writer = t]
         ELSE /\ ReadFree(mlock)
              /\ mlock' = [mlock EXCEPT !.readers = @ \cup {t}]
    /\ lpc' = [lpc EXCEPT ![t] = "has_models"]
    /\ UNCHANGED << lop, lname, ilock, models, model_infos >>

\* self.model_infos.write().await, and .read().await of get_model_info
AwaitInfos(t) ==
    /\ lpc[t] = "await_infos"
    /\ IF lop[t] \in Writers
         THEN /\ WriteFree(ilock)
              /\ ilock' = [ilock EXCEPT !.writer = t]
         ELSE /\ ReadFree(ilock)
              /\ ilock' = [ilock EXCEPT !.readers = @ \cup {t}]
    /\ lpc' = [lpc EXCEPT ![t] = "has_infos"]
    /\ UNCHANGED << lop, lname, mlock, models, model_infos >>

\* load_model: create_model and model.initialize().await?, no lock held
LoadInitializeLocked(t, ok) ==
    /\ lop[t] = "load_model"
    /\ lpc[t] = "initialize"
    /\ IF ok
         THEN /\ lpc' = [lpc EXCEPT ![t] = "await_infos"]
              /\ UNCHANGED << lop, lname >>
         ELSE Returns(t)
    /\ UNCHANGED << mlock, ilock, models, model_infos >>

\* mutant of LoadInsertInfoLocked: the guard of model_infos is bound to a
\* local and lives on while load_model waits for models
LoadInsertInfoKeepGuard(t) ==
    /\ lop[t] = "load_model"
    /\ lpc[t] = "has_infos"
    /\ model_infos' = Insert(model_infos, lname[t], ModelInfoOf(lname[t]))
    /\ lpc' = [lpc EXCEPT ![t] = "await_models"]
    /\ UNCHANGED << lop, lname, mlock, ilock, models >>

\* load_model: the ModelInfo is inserted and the temporary guard dropped at
\* the end of the statement; the call goes on to wait for models
LoadInsertInfoLocked(t) ==
    /\ lop[t] = "load_model"
    /\ lpc[t] = "has_infos"
    /\ model_infos' = Insert(model_infos, lname[t], ModelInfoOf(lname[t]))
    /\ ilock' = Release(ilock, t)
    /\ lpc' = [lpc EXCEPT ![t] = "await_models"]
    /\ UNCHANGED << lop, lname, mlock, models >>

\* load_model: the model is inserted, the guard dropped, Ok returns
LoadInsertModelLocked(t) ==
    /\ lop[t] = "load_model"
    /\ lpc[t] = "has_models"
    /\ models' = Insert(models, lname[t], Handle(lname[t], TRUE))
    /\ mlock' = Release(mlock, t)
    /\ Returns(t)
    /\ UNCHANGED << ilock, model_infos >>

\* unload_model: remove(name) under the write guard of models; the guard is
\* a temporary of the if-let and lives through both of its branches
UnloadRemoveLocked(t) ==
    /\ lop[t] = "unload_model"
    /\ lpc[t] = "has_models"
    /\ IF lname[t] \in DOMAIN models
         THEN /\ models' = Remove(models, lname[t])
              /\ lpc' = [lpc EXCEPT ![t] = "await_infos"]
              /\ UNCHANGED << lop, lname, mlock >>
         ELSE /\ mlock' = Release(mlock, t)
              /\ Returns(t)
              /\ UNCHANGED models
    /\ UNCHANGED << ilock, model_infos >>

\* unload_model: the ModelInfo is removed, both guards are dropped, Ok returns
UnloadRemoveInfoLocked(t) ==
    /\ lop[t] = "unload_model"
    /\ lpc[t] = "has_infos"
    /\ model_infos' = Remove(model_infos, lname[t])
    /\ ilock' = Release(ilock, t)
    /\ mlock' = Release(mlock, t)
    /\ Returns(t)
    /\ UNCHANGED models

\* shutdown_all: models.clear() under the write guard of models, which the
\* local `models` keeps to the end of the function
ShutdownClearLocked(t) ==
    /\ lop[t] = "shutdown_all"
    /\ lpc[t] = "has_models"
    /\ models' = EmptyMap
    /\ lpc' = [lpc EXCEPT ![t] = "await_infos"]
    /\ UNCHANGED << lop, lname, mlock, ilock, model_infos >>

\* shutdown_all: model_infos is cleared, both guards are dropped, Ok returns
ShutdownClearInfosLocked(t) ==
    /\ lop[t] = "shutdown_all"
    /\ lpc[t] = "has_infos"
    /\ model_infos' = EmptyMap
    /\ ilock' = Release(ilock, t)
    /\ mlock' = Release(mlock, t)
    /\ Returns(t)
    /\ UNCHANGED models

\* get_model: the handle is cloned under the read guard, which is dropped
GetModelLocked(t) ==
    /\ lop[t] = "get_model"
    /\ lpc[t] = "has_models"
    /\ mlock' = Release(mlock, t)
    /\ Returns(t)
    /\ UNCHANGED << ilock, models, model_infos >>

\* get_model_info: the ModelInfo is cloned under the read guard, which is
\* dropped
GetModelInfoLocked(t) ==
    /\ lop[t] = "get_model_info"
    /\ lpc[t] = "has_infos"
    /\ ilock' = Release(ilock, t)
    /\ Returns(t)
    /\ UNCHANGED << mlock, models, model_infos >>

\* what a task does once its call has begun
TaskStep(t) ==
    \/ \E ok \in BOOLEAN : LoadInitializeLocked(t, ok)
    \/ LoadInsertInfoLocked(t)
    \/ LoadInsertModelLocked(t)
    \/ UnloadRemoveLocked(t)
    \/ UnloadRemoveInfoLocked(t)
    \/ ShutdownClearLocked(t)
    \/ ShutdownClearInfosLocked(t)
    \/ GetModelLocked(t)
    \/ GetModelInfoLocked(t)

\* what the lock-level steps leave alone
LockFrame ==
    /\ UNCHANGED << modelsW, rpc, rop, rname, rmodel, rres, seen >>
    /\ UNCHANGED serverVars
    /\ UNCHANGED << inferVars, reloadVars, codecVars, engineVars, buildVars, httpVars,
                    surfaceVars >>

NextLocks ==
    \/ \E p \in Procs, op \in Writers, name \in Names :
         RegistryCall(p, op, name) /\ LockFrame
    \/ \E o \in Observers, op \in Readers, name \in Names :
         RegistryCall(o, op, name) /\ LockFrame
    \/ \E t \in Tasks : AwaitModels(t) /\ LockFrame
    \/ \E t \in Tasks : AwaitInfos(t) /\ LockFrame
    \/ \E t \in Tasks : TaskStep(t) /\ LockFrame

\* the registry under its callers; the runtime runs every task that can run,
\* and tokio's RwLock is fair: a task that waits for a lock which is free
\* again and again gets it
SpecLocks ==
    /\ InitRegistry
    /\ [][NextLocks]_vars
    /\ \A t \in Tasks : WF_vars(TaskStep(t) /\ LockFrame)
    /\ \A t \in Tasks : SF_vars(AwaitModels(t) /\ LockFrame)
    /\ \A t \in Tasks : SF_vars(AwaitInfos(t) /\ LockFrame)

\* no task waits for the lock of models while it holds a guard of model_infos
LockOrder ==
    \A t \in Tasks : ~ (Holds(ilock, t) /\ lpc[t] = "await_models")

\* load_model holds at most one guard at a time
LoadHoldsOne ==
    \A t \in Tasks : lop[t] = "load_model" => ~ (Holds(ilock, t) /\ Holds(mlock, t))

\* C34: the registry's locks are taken in one order only (a task that holds
\* a guard of model_infos never waits for models, and load_model never holds
\* two guards), and every call of load_model, unload_model, shutdown_all,
\* get_model and get_model_info that has begun returns, whatever the other
\* tasks do meanwhile
C34_RegistryCallsComplete ==
    /\ [](LockOrder /\ LoadHoldsOne)
    /\ \A t \in Tasks : (lpc[t] # "idle") ~> (lpc[t] = "idle")

\* unload_model or shutdown_all waits for model_infos with the guard of models
\* in hand, while load_model holds the guard of model_infos
C34_Witness ==
    \E t, u \in Tasks :
      /\ lop[t] \in {"unload_model", "shutdown_all"}
      /\ lpc[t] = "await_infos"
      /\ Holds(mlock, t)
      /\ lop[u] = "load_model"
      /\ lpc[u] = "has_infos"


\* ------------------------------------------ the two maps when calls are over

\* every registry call that was made has returned and both locks are free
AllReturned ==
    /\ \A t \in Tasks : lpc[t] = "idle"
    /\ mlock = Unlocked
    /\ ilock = Unlocked

\* C35: once every load_model, unload_model and shutdown_all call has
\* returned, the names in models are the names in model_infos, whichever way
\* the calls were interleaved
C35_SameNamesOnceReturned ==
    AllReturned => DOMAIN models = DOMAIN model_infos


\* --------------------------------------- a reload that is turned down

\* the step in which reload_config returns the error of from_file or of
\* validate
ReloadRefused ==
    /\ mpc = "idle"
    /\ mcall' = "reload_config"
    /\ mres' \in {"IoError", "ConfigError"}

\* C36: when reload_config cannot read the new configuration, or validate
\* rejects it, the call returns that error in the same step: no registry call
\* is made, the loaded models, both maps and their lock are as before and
\* self.config is the configuration it was; and the reload goes on to
\* shutdown_all only with a configuration that validate accepts
C36_RefusedReloadChangesNothing ==
    [][/\ ReloadRefused =>
            /\ mpc' = "idle"
            /\ config' = config
            /\ models' = models
            /\ model_infos' = model_infos
            /\ modelsW' = modelsW
            /\ rpc' = rpc
            /\ rop' = rop
            /\ mnew' = mnew
       /\ (mpc = "idle" /\ mpc' = "shutdown_all") =>
            /\ mnew' # None
            /\ validate(mnew'[1]) = "Ok"
            /\ config' = config]_vars

\* reload_config has returned validate's error with a model loaded and the
\* configuration in place that was there before
C36_Witness ==
    /\ mcall = "reload_config"
    /\ mpc = "idle"
    /\ mres = "ConfigError"
    /\ DOMAIN models # {}
    /\ DOMAIN models = DOMAIN model_infos
    /\ validate(config) = "Ok"


\* --------------------------------------------- the envelope of an answer

\* the handler of c can take a request from its stream
ReadsRequest(c) == hpc[c] = "read" /\ nRead[c] < MaxFrames /\ OneTalker(c)

\* the handler of c can go on to write a message whose message id is u
CanAnswerWith(c, u) ==
    ENABLED (/\ \/ \E w \in WireInputs : HandlerRead(c, w)
                \/ \E infer \in {"ok", "InferenceError"}, fresh \in Uuids :
                     HandlerEmbed(c, infer, fresh)
             /\ hpc'[c] = "write"
             /\ response_msg'[c][1].message_id = u)

\* C37: every message a handler writes, the answer to a request and the
\* error message alike, has the server's id as its sender id and as its
\* target id, which is present, the sender id of the request it answers; its
\* message id is drawn anew when the message is built: whatever the request
\* is, the answer may come to carry any id
C37_AnswerEnvelope ==
    \A c \in Conns :
      /\ hpc[c] = "write" =>
           /\ request_msg[c] # None
           /\ response_msg[c] # None
           /\ response_msg[c][1].sender_id = server_id
           /\ response_msg[c][1].target_id = Some(request_msg[c][1].sender_id)
      /\ (hpc[c] = "embed" \/ ReadsRequest(c)) =>
           \A u \in Uuids : CanAnswerWith(c, u)

\* an embedding is being written to a client whose id is not the server's,
\* under a message id that is not the request's
C37_Witness ==
    \E c \in Conns :
      /\ hpc[c] = "write"
      /\ response_msg[c][1].payload.kind = "embedding"
      /\ response_msg[c][1].sender_id = server_id
      /\ request_msg[c][1].sender_id # server_id
      /\ response_msg[c][1].target_id = Some(request_msg[c][1].sender_id)
      /\ response_msg[c][1].message_id # request_msg[c][1].message_id


\* ------------------------------------------- a stream that ends in a frame
\* The handler again, reading the bytes its peer has sent: a whole frame, a
\* frame cut short at any byte of its header or inside its payload, or
\* nothing at all.

\* the frames a peer sends; none of their payloads is the MessagePack of an
\* EmbedRequest
Frames ==
    { write_to_stream(m) :
        m \in [sender_id : {"u2"}, target_id : {None, Some("u1")},
               message_id : {"u2"},
               payload : { << >>,
                           << [b |-> 7, n |-> SzOf(2)], [b |-> 9, n |-> SzOf(1)] >> }] }

\* a frame that ends early: in the magic, in a later field of the header, or
\* in the payload
Truncations(f) == { SubSeq(f, 1, k) : k \in 1 .. (Len(f) - 1) }

TruncatedStreams == UNION { Truncations(f) : f \in Frames }

HandlerStreams == {<< >>} \cup Frames \cup TruncatedStreams

\* rmp_serde::from_slice on the payload of one of Frames: not an EmbedRequest
from_slice(payload) == [wf |-> FALSE, text |-> "", model |-> None]

RECURSIVE Skip(_, _)
\* the stream after k frames have been read from it
Skip(st, k) == IF k = 0 THEN st ELSE Skip(read_from_bytes(st).rest, k - 1)

\* handle_connection: what the Err arm of read_from_stream logs
ReadErrorLog(kind) ==
    IF kind = "UnexpectedEof" THEN "Client disconnected" ELSE "Protocol error"

\* the peers' bytes: every client sends st and closes its side; a handler
\* reads once they are there
PeerStream(st) ==
    /\ cpc = "idle"
    /\ \A c \in Conns : hpc[c] = "none"
    /\ PeerSends(st)

\* handle_connection: one read_from_stream on the bytes the peer has sent,
\* and what follows it up to the next await
HandlerReadBytes(c) ==
    /\ hpc[c] = "read"
    /\ cpc = "written"
    /\ LET r == read_from_bytes(Skip(cwire, nRead[c]))
       IN  IF ~ r.ok
             THEN /\ rx' = [rx EXCEPT ![c] = r.kind]
                  /\ ReadFailed(c, r.kind)
             ELSE /\ nRead' = [nRead EXCEPT ![c] = @ + 1]
                  /\ \E fresh \in Uuids :
                       DeserializeFailed(c,
                         AtPos([sender_id |-> r.msg[1].sender_id,
                                target_id |-> r.msg[1].target_id,
                                message_id |-> r.msg[1].message_id,
                                payload |-> from_slice(r.msg[1].payload)],
                               nRead[c] + 1), fresh)

NextStream ==
    \/ \E st \in HandlerStreams : PeerStream(st)
    \/ \E c \in Conns : ClientConnect(c)
    \/ \E c \in Conns : Admit(c)
    \/ \E c \in Conns : HandlerReadBytes(c)
    \/ \E c \in Conns : WriteOk(c)
    \/ \E c \in Conns : WriteErr(c)

SpecStream == Init /\ [][NextStream]_vars

\* the stream left to the handler of c ends inside a frame
MidFrame(c) == Skip(cwire, nRead[c]) \in TruncatedStreams

\* C38: when the stream ends inside a frame, in its header or in its payload,
\* the read fails with UnexpectedEof as it does at a clean end of the stream:
\* the handler logs a disconnect and not a protocol error, writes no message,
\* returns Ok, the connection is closed and the permit is given back
C38_MidFrameEofIsDisconnect ==
    [][\A c \in Conns :
         (hpc[c] = "read" /\ hpc'[c] # "read" /\ MidFrame(c)) =>
           /\ rx'[c] = "UnexpectedEof"
           /\ ReadErrorLog(rx'[c]) = "Client disconnected"
           /\ ReadErrorLog(rx'[c]) = ReadErrorLog(read_from_bytes(<< >>).kind)
           /\ hend'[c] = "Ok"
           /\ hpc'[c] = "none"
           /\ sock'[c] = "closed"
           /\ response_msg'[c] = None
           /\ permits' = permits + 1]_vars

\* a handler has ended on a frame whose payload was cut short
C38_Witness ==
    \E c \in Conns :
      /\ hpc[c] = "none"
      /\ sock[c] = "closed"
      /\ rx[c] = "UnexpectedEof"
      /\ hend[c] = "Ok"
      /\ \E f \in Frames : Len(cwire) > 43 /\ cwire \in Truncations(f)


\* ------------------------------------------- errors as the caller sees them
\* A call for embeddings from the manager's caller down to the engine: the
\* manager resolves the handle, the model looks at its engine, the engine
\* runs embed_texts, and the model maps what the engine returned.

\* EmbeddingError's Display: the variant's prefix and its text
to_string(e) ==
    << IF e.error = "InvalidInput" THEN "Invalid input: "
       ELSE IF e.error = "EmbeddingFailed" THEN "Embedding failed: "
       ELSE e.error, e.message >>

\* EmbeddingError::ModelNotFound { model_name }
ModelNotFoundOf(model_name) ==
    [ok |-> FALSE, value |-> << >>, error |-> "ModelNotFound", text |-> << >>,
     model_name |-> model_name]

\* EmbeddingError::InferenceError { model_name, error }
InferenceError(model_name, error) ==
    [ok |-> FALSE, value |-> << >>, error |-> "InferenceError", text |-> error,
     model_name |-> model_name]

\* mutant of map_err: the engine's error goes to the caller as it is
map_err_propagate(model_name, e) ==
    [ok |-> FALSE, value |-> << >>, error |-> e.error, text |-> << "", e.message >>,
     model_name |-> ""]

\* the closure given to map_err in embed_text and embed_batch
map_err(model_name, e) == InferenceError(model_name, to_string(e))

\* embed_text and embed_batch of the model on what embed_texts returned
embed_result(model_name, call, res) ==
    IF ~ res.ok THEN map_err(model_name, res)
    ELSE IF call = "embed_batch"
      THEN [ok |-> TRUE, value |-> res.value, error |-> "", text |-> << >>,
            model_name |-> ""]
    ELSE IF res.value # << >>
      THEN [ok |-> TRUE, value |-> res.value[1], error |-> "", text |-> << >>,
            model_name |-> ""]
    ELSE InferenceError(model_name, << "", "No embedding returned" >>)

\* the manager's four methods, and the model's method each of them calls
ManagerMethods ==
    {"embed_text", "embed_text_with_model", "embed_batch", "embed_batch_with_model"}

MethodOfModel(method) ==
    IF method \in {"embed_text", "embed_text_with_model"} THEN "embed_text"
    ELSE "embed_batch"

\* embed_text or embed_batch of the model of the given name, with or without
\* an engine: without one ModelNotFound returns, else embed_texts is called
ModelEnter(model_name, engine, call, texts, hidden) ==
    /\ smodel' = Some(Handle(model_name, engine))
    /\ IF ~ engine
         THEN /\ sout' = Some(ModelNotFoundOf(model_name))
              /\ spc' = "done"
              /\ UNCHANGED engineVars
         ELSE /\ spc' = "engine"
              /\ ecall' = call
              /\ etexts' = texts
              /\ edim' = hidden
              /\ ehidden' = hidden
              /\ epc' = "enter"
              /\ UNCHANGED << sout, embeddings, etok, eruns, eres, eout >>

\* what a call for embeddings leaves alone
SurfaceFrame ==
    UNCHANGED << serverVars, registryVars, inferVars, reloadVars, codecVars,
                 buildVars, httpVars, lockVars >>

\* a method of the manager is called: the handle is looked up, under the
\* default model's name or under the name given, and ModelNotFound returns
\* if there is none
ManagerCall(method, name, texts, hidden) ==
    /\ spc = "idle"
    /\ epc = "idle"
    /\ MethodOfModel(method) = "embed_text" => Len(texts) = 1
    /\ LET target == IF method \in {"embed_text", "embed_batch"}
                       THEN config.default ELSE name
           model == get_model(target)
       IN  /\ scall' = Some([via |-> "manager", method |-> method, name |-> target])
           /\ IF model = None
                THEN /\ smodel' = None
                     /\ sout' = Some(ModelNotFoundOf(target))
                     /\ spc' = "done"
                     /\ UNCHANGED engineVars
                ELSE ModelEnter(model[1].info.name, model[1].engine,
                                MethodOfModel(method), texts, hidden)
    /\ SurfaceFrame

\* embed_text or embed_batch is called on a model that is in no registry,
\* before or after its initialize
ModelCall(model_name, engine, call, texts, hidden) ==
    /\ spc = "idle"
    /\ epc = "idle"
    /\ call = "embed_text" => Len(texts) = 1
    /\ scall' = Some([via |-> "model", method |-> call, name |-> model_name])
    /\ ModelEnter(model_name, engine, call, texts, hidden)
    /\ SurfaceFrame

\* embed_texts has returned; the model maps its result and the manager hands
\* it to its caller
SurfaceReturn ==
    /\ spc = "engine"
    /\ epc = "return"
    /\ eout' = Some(model_result(ecall, eres[1]))
    /\ sout' = Some(embed_result(smodel[1].info.name, ecall, eres[1]))
    /\ epc' = "done"
    /\ spc' = "done"
    /\ UNCHANGED << scall, smodel >>
    /\ UNCHANGED << ecall, etexts, edim, ehidden, embeddings, etok, eruns, eres >>
    /\ SurfaceFrame

NextSurface ==
    \/ \E method \in ManagerMethods, name \in Names, texts \in TextLists,
          hidden \in Dimensions :
         ManagerCall(method, name, texts, hidden)
    \/ \E name \in Names, engine \in BOOLEAN, call \in {"embed_text", "embed_batch"},
          texts \in TextLists, hidden \in Dimensions :
         ModelCall(name, engine, call, texts, hidden)
    \/ EmbedTextsEnter
    \/ EmbedTextsLoop
    \/ EmbedTextsDone
    \/ SurfaceReturn
    \/ \E name \in Names : spc = "idle" /\ UnloadRemove(Manager, name)
    \/ UnloadRemoveInfo(Manager)

SpecSurface == Init /\ [][NextSurface]_vars

\* the kinds of error embed_texts fails with
EngineErrors == {"InvalidInput", "EmbeddingFailed"}

\* C39: when embed_texts has failed, for an empty list or on a text, the
\* caller of embed_text or embed_batch gets InferenceError with the name of
\* the model that was called, and never the engine's own kind of error;
\* InferenceError is returned in no other case; and ModelNotFound is returned
\* exactly when no handle was found or the model has no engine, the engine
\* not having been called
C39_EngineFailureIsInferenceError ==
    spc = "done" =>
      /\ (eres # None /\ ~ eres[1].ok) =>
           /\ eres[1].error \in EngineErrors
           /\ sout[1].error = "InferenceError"
           /\ sout[1].model_name = smodel[1].info.name
           /\ sout[1].text = to_string(eres[1])
      /\ ~ sout[1].ok => sout[1].error \in {"InferenceError", "ModelNotFound"}
      /\ sout[1].error = "InferenceError" => (eres # None /\ ~ eres[1].ok)
      /\ sout[1].error = "ModelNotFound" <=> (smodel = None \/ ~ smodel[1].engine)
      /\ sout[1].error = "ModelNotFound" =>
           /\ eres = None
           /\ etok = << >>
           /\ sout[1].model_name = scall[1].name

\* embed_batch of the manager was called with no text, for a model found
\* under the name given: the engine's InvalidInput has come back as
\* InferenceError with that name
C39_Witness ==
    /\ spc = "done"
    /\ scall[1].method = "embed_batch_with_model"
    /\ etexts = << >>
    /\ eres # None
    /\ eres[1].error = "InvalidInput"
    /\ sout[1].error = "InferenceError"
    /\ sout[1].model_name = scall[1].name


\* ------------------------------------- the default model after initialize

\* EmbeddingModelsManager::embed_text followed by the model's embed_text: the
\* handle is looked up under config.global.default_model; infer is what the
\* engine's embed_texts returns if it is called
default_embed_text(infer) ==
    LET model == get_model(config.default)
    IN  IF model = None THEN ModelNotFoundOf(config.default)
        ELSE IF ~ model[1].engine THEN ModelNotFoundOf(model[1].info.name)
        ELSE IF infer # "ok"
          THEN InferenceError(model[1].info.name, << "Embedding failed: ", infer >>)
        ELSE [ok |-> TRUE, value |-> << >>, error |-> "", text |-> << >>,
              model_name |-> ""]

\* load_from_config when every load_model succeeds: each enabled entry is in
\* the registry under its name
LoadedNames(c) == { c.name[k] : k \in c.enabled }

\* initialize, called at start-up or at the end of reload_config, has
\* returned Ok and no other call of the manager is under way
InitializeOk == mpc = "idle" /\ mres = "Ok"

\* embed_text does not fail with ModelNotFound, whatever the engine does
DefaultServed ==
    \A infer \in {"ok", "InferenceError"} :
      default_embed_text(infer).error # "ModelNotFound"

\* C40: once initialize has returned Ok for a manager whose configuration
\* validate accepted, the default model is in both maps with its engine and
\* embed_text does not return ModelNotFound; this stays so until a step of
\* shutdown_all empties the registry (no other step takes the model away, a
\* reload that is refused included); and for every configuration validate
\* accepts, a load in which nothing fails puts the default model's name in
\* the registry
C40_DefaultServedAfterInitialize ==
    /\ [](InitializeOk =>
            /\ validate(config) = "Ok"
            /\ config.default \in DOMAIN models
            /\ config.default \in DOMAIN model_infos
            /\ models[config.default].engine
            /\ DefaultServed)
    /\ [][(DefaultServed /\ ~ DefaultServed') =>
            /\ rop'[Manager] = "shutdown_all"
            /\ models' = EmptyMap]_vars
    /\ [](\A c \in AllConfigs : validate(c) = "Ok" => c.default \in LoadedNames(c))

\* a reload has ended with success under a configuration whose default model
\* is B, and B answers
C40_Witness ==
    /\ mcall = "reload_config"
    /\ InitializeOk
    /\ config.default = "B"
    /\ DefaultServed
    /\ default_embed_text("ok").ok

====
